---- MODULE Spec2Model ----
(***************************************************************************)
(* Model of the TEMPDROP dropsonde pipeline of ufs_obs:                    *)
(*   sorc/obsio/tempdrop_read.py   class TEMPDROP (run and its methods)    *)
(*   sorc/obsio/sonde/hsa.py       module-level duplicates of the stages   *)
(*   sorc/obsio/sonde/advect.py    advect, fallrate, interp_hsa,           *)
(*                                 update_time                             *)
(*                                                                         *)
(* Units.  Latitudes and longitudes are integers in hundredths of a        *)
(* degree (the unit of the location strings of a message), pressures are   *)
(* whole hPa, times are whole seconds.  Real division is floor division    *)
(* at that resolution.  numpy.nan is the value NaN, which every            *)
(* arithmetic operator below propagates.                                   *)
(***************************************************************************)
EXTENDS Integers, Sequences, FiniteSets, TLC

(***************************************************************************)
(* Bounds of the model.                                                    *)
(***************************************************************************)
\* the longest message body (number of XX lines) a run is given
MaxBody == 3

(***************************************************************************)
(* Program constants.                                                      *)
(***************************************************************************)
psfc_flag == 1070
missing_data == -99
NaN == -9999
Inf == 99999
NegInf == -99999
luidx == 99

(***************************************************************************)
(* Sequence helpers.                                                       *)
(***************************************************************************)
Range(s) == {s[i] : i \in DOMAIN s}

SetMin(S) == CHOOSE x \in S : \A y \in S : x <= y

SetMax(S) == CHOOSE x \in S : \A y \in S : x >= y

Abs(x) == IF x < 0 THEN -x ELSE x

\* Python's s[::-1]
Reverse(s) == [i \in 1..Len(s) |-> s[Len(s) + 1 - i]]

\* Python's s[1::]
DropFirst(s) == IF Len(s) = 0 THEN <<>> ELSE SubSeq(s, 2, Len(s))

IsNaN(x) == x = NaN

\* floor division of reals at the model's resolution, NaN-propagating
FDiv(a, b) == IF IsNaN(a) \/ IsNaN(b) THEN NaN ELSE a \div b

Add(a, b) == IF IsNaN(a) \/ IsNaN(b) THEN NaN ELSE a + b

Sub(a, b) == IF IsNaN(a) \/ IsNaN(b) THEN NaN ELSE a - b

Mul(a, b) == IF IsNaN(a) \/ IsNaN(b) THEN NaN ELSE a * b

(***************************************************************************)
(* Results of a call: a value, or the exception it raised.                 *)
(***************************************************************************)
Ok(v) == [ok |-> TRUE, val |-> v, err |-> "none"]

Raise(e) == [ok |-> FALSE, val |-> <<>>, err |-> e]

\* a stage that raised, with the context as the stage left it
Fail(e, obj) == [ok |-> FALSE, val |-> obj, err |-> e]

(***************************************************************************)
(* choparr: vararr[::1][::-1][1::], the array reversed and then without    *)
(* the first entry of the reversal (the last entry of the input).          *)
(***************************************************************************)
\* a chop without the reversal
choparr_noreverse(vararr) == DropFirst(vararr)

\* a chop that reverses and drops nothing
choparr_nochop(vararr) == Reverse(vararr)

choparr(vararr) == DropFirst(Reverse(vararr))

(***************************************************************************)
(* layer_mean: an array of the input's shape allocated with numpy.empty;   *)
(* slot idx-1 receives mean(vararr[idx], vararr[idx-1]) for idx in         *)
(* 1..N-1 (0-based).  The last slot is never assigned: it holds whatever   *)
(* the allocation left there, the parameter junk.                          *)
(***************************************************************************)
\* layer means stored one slot later, the unassigned slot first
layer_mean_shifted(vararr, junk) ==
  [i \in 1..Len(vararr) |->
     IF i = 1 THEN junk ELSE FDiv(Add(vararr[i], vararr[i - 1]), 2)]

layer_mean(vararr, junk) ==
  [i \in 1..Len(vararr) |->
     IF i < Len(vararr) THEN FDiv(Add(vararr[i + 1], vararr[i]), 2) ELSE junk]

(***************************************************************************)
(* gsndfall2 (obsio.sonde.aoml, external): the empirical fall rate of a    *)
(* sonde, a positive rate that is larger aloft.  Only its contract is      *)
(* modelled.                                                               *)
(***************************************************************************)
gsndfall2(pr, te, sfcp) ==
  IF IsNaN(pr) \/ IsNaN(te) \/ IsNaN(sfcp) THEN NaN
  ELSE IF pr >= 800 THEN 1 ELSE 2

(***************************************************************************)
(* fallrate: numpy.zeros(len(avgp)+1); for idx in 1..len(avgp) (0-based)   *)
(* slot idx receives gsndfall2(avgp[idx], avgt[idx]); the IndexError of    *)
(* idx = len(avgp) is swallowed, so the first and the last slot stay 0.    *)
(* Below j is the 1-based position of 0-based slot j-1.                    *)
(***************************************************************************)
\* a fall rate aligned with the layers: slot idx from layer idx, the last slot 0
fallrate_aligned(avgp, avgt, psfc) ==
  [j \in 1..(Len(avgp) + 1) |->
     IF j <= Len(avgp) /\ j <= Len(avgt)
       THEN gsndfall2(avgp[j], avgt[j], psfc)
       ELSE 0]

fallrate(avgp, avgt, psfc) ==
  [j \in 1..(Len(avgp) + 1) |->
     IF j >= 2 /\ j <= Len(avgp) /\ j <= Len(avgt)
       THEN gsndfall2(avgp[j], avgt[j], psfc)
       ELSE 0]

(***************************************************************************)
(* interp / interp_hsa: scipy's interp1d(lev, var, kind="linear",          *)
(* fill_value="extrapolate") through the valid samples, evaluated at the   *)
(* pressure of every NaN position.                                         *)
(***************************************************************************)
ValidIdx(varin) == {i \in DOMAIN varin : ~IsNaN(varin[i])}

\* the valid positions ordered by pressure (interp1d sorts its abscissae)
RECURSIVE SortByLev(_, _)
SortByLev(S, zarr) ==
  IF S = {} THEN <<>>
  ELSE LET m == CHOOSE i \in S :
                  \A j \in S : zarr[i] < zarr[j] \/ (zarr[i] = zarr[j] /\ i <= j)
       IN <<m>> \o SortByLev(S \ {m}, zarr)

\* numpy.searchsorted(x, v) (side left), clipped to [1, len(x)-1], 0-based;
\* returned as the 1-based position of the upper sample of the segment
Segment(xs, v) ==
  LET n == Cardinality({k \in DOMAIN xs : xs[k] < v})
      c == IF n < 1 THEN 1 ELSE IF n > Len(xs) - 1 THEN Len(xs) - 1 ELSE n
  IN c + 1

\* IEEE arithmetic on the finite values, inf, -inf and nan; a zero divisor is
\* the positive zero that the difference of two equal pressures gives
IsInf(a) == a = Inf \/ a = NegInf

Sign(a) == IF a = Inf THEN 1 ELSE IF a = NegInf THEN -1
           ELSE IF a > 0 THEN 1 ELSE IF a < 0 THEN -1 ELSE 0

Signed(sgn) == IF sgn > 0 THEN Inf ELSE IF sgn < 0 THEN NegInf ELSE NaN

XAdd(a, b) ==
  IF IsNaN(a) \/ IsNaN(b) THEN NaN
  ELSE IF IsInf(a) /\ IsInf(b) THEN (IF a = b THEN a ELSE NaN)
  ELSE IF IsInf(a) THEN a
  ELSE IF IsInf(b) THEN b
  ELSE a + b

XSub(a, b) == XAdd(a, IF IsNaN(b) THEN NaN ELSE IF IsInf(b) THEN Signed(-Sign(b)) ELSE -b)

XMul(a, b) ==
  IF IsNaN(a) \/ IsNaN(b) THEN NaN
  ELSE IF IsInf(a) \/ IsInf(b) THEN Signed(Sign(a) * Sign(b))
  ELSE a * b

XDiv(a, b) ==
  IF IsNaN(a) \/ IsNaN(b) THEN NaN
  ELSE IF IsInf(a) /\ IsInf(b) THEN NaN
  ELSE IF IsInf(a) THEN (IF b < 0 THEN Signed(-Sign(a)) ELSE a)
  ELSE IF IsInf(b) THEN 0
  ELSE IF b = 0 THEN Signed(Sign(a))
  ELSE a \div b

\* interp1d._call_linear: slope = (y_hi - y_lo) / (x_hi - x_lo) and
\* y_new = slope * (x_new - x_lo) + y_lo.  Two samples at one pressure make
\* the slope inf or nan; nothing is raised.
Linear(order, varin, zarr, v) ==
  LET xs == [k \in DOMAIN order |-> zarr[order[k]]]
      ys == [k \in DOMAIN order |-> varin[order[k]]]
      hi == Segment(xs, v)
      lo == hi - 1
  IN IF xs[hi] # xs[lo] /\ ~IsInf(ys[hi]) /\ ~IsInf(ys[lo])
       THEN ys[lo] + (((ys[hi] - ys[lo]) * (v - xs[lo])) \div (xs[hi] - xs[lo]))
       ELSE XAdd(XMul(XDiv(XSub(ys[hi], ys[lo]), xs[hi] - xs[lo]), v - xs[lo]), ys[lo])

\* an interpolator that fills nothing
interp_nofill(varin, zarr) == varin

\* an interpolator that returns the interpolant at every level
interp_everywhere(varin, zarr) ==
  IF Cardinality(ValidIdx(varin)) <= 1 THEN varin
  ELSE LET order == SortByLev(ValidIdx(varin), zarr)
       IN [i \in DOMAIN varin |-> Linear(order, varin, zarr, zarr[i])]

\* an interpolator that spreads a single valid sample over the profile
interp_fillconst(varin, zarr) ==
  IF ValidIdx(varin) = {} THEN varin
  ELSE LET order == SortByLev(ValidIdx(varin), zarr)
       IN [i \in DOMAIN varin |->
             IF ~IsNaN(varin[i]) THEN varin[i]
             ELSE IF Len(order) = 1 THEN varin[order[1]]
             ELSE Linear(order, varin, zarr, zarr[i])]

interp(varin, zarr) ==
  IF Cardinality(ValidIdx(varin)) <= 1 THEN varin
  ELSE LET order == SortByLev(ValidIdx(varin), zarr)
       IN [i \in DOMAIN varin |->
             IF IsNaN(varin[i]) THEN Linear(order, varin, zarr, zarr[i])
             ELSE varin[i]]

(***************************************************************************)
(* sfcpres: the hgt of the first level whose pressure is the surface       *)
(* sentinel; without one (IndexError), numpy.nanmax of the pressures.      *)
(***************************************************************************)
\* a surface pressure read at the last level at the sentinel
sfcpres_last(pres, hgt) ==
  LET hits == {i \in DOMAIN pres : pres[i] = psfc_flag}
      nums == {pres[i] : i \in {k \in DOMAIN pres : ~IsNaN(pres[k])}}
  IN IF hits # {} THEN hgt[SetMax(hits)]
     ELSE IF nums = {} THEN NaN ELSE SetMax(nums)

sfcpres(pres, hgt) ==
  LET hits == {i \in DOMAIN pres : pres[i] = psfc_flag}
      nums == {pres[i] : i \in {k \in DOMAIN pres : ~IsNaN(pres[k])}}
  IN IF hits # {} THEN hgt[SetMin(hits)]
     ELSE IF nums = {} THEN NaN ELSE SetMax(nums)

(***************************************************************************)
(* Text.  A string is a sequence of one-character strings, a line is the   *)
(* sequence of its whitespace-separated tokens, a message is a sequence    *)
(* of lines.                                                               *)
(***************************************************************************)
UpperLetters == <<"R", "E", "L", "S", "P", "G", "N", "W", "X", "A", "T">>

LowerLetters == <<"r", "e", "l", "s", "p", "g", "n", "w", "x", "a", "t">>

Digits == <<"0", "1", "2", "3", "4", "5", "6", "7", "8", "9">>

IsLetter(c) == c \in Range(UpperLetters) \cup Range(LowerLetters)

IsDigit(c) == c \in Range(Digits)

DigitVal(c) == (CHOOSE i \in DOMAIN Digits : Digits[i] = c) - 1

\* str.lower()
Lower(c) ==
  IF c \in Range(UpperLetters)
    THEN LowerLetters[CHOOSE i \in DOMAIN UpperLetters : UpperLetters[i] = c]
    ELSE c

LowerStr(str) == [i \in DOMAIN str |-> Lower(str[i])]

LowerLine(line) == [k \in DOMAIN line |-> LowerStr(line[k])]

\* Python's "sub in str"
Contains(sub, str) ==
  \E i \in 1..(Len(str) - Len(sub) + 1) : SubSeq(str, i, i + Len(sub) - 1) = sub

\* "sub in line" for a sub without whitespace
LineContains(sub, line) == \E k \in DOMAIN line : Contains(sub, line[k])

\* re.sub("[a-zA-Z]", " ", str)
BlankLetters(str) == [i \in DOMAIN str |-> IF IsLetter(str[i]) THEN " " ELSE str[i]]

\* str.split()
RECURSIVE Split(_)
Split(str) ==
  IF Len(str) = 0 THEN <<>>
  ELSE IF str[1] = " " THEN Split(DropFirst(str))
  ELSE LET stops == {i \in DOMAIN str : str[i] = " "}
           n == IF stops = {} THEN Len(str) ELSE SetMin(stops) - 1
       IN <<SubSeq(str, 1, n)>> \o Split(SubSeq(str, n + 1, Len(str)))

RECURSIVE Number(_)
Number(str) ==
  IF Len(str) = 0 THEN 0
  ELSE 10 * Number(SubSeq(str, 1, Len(str) - 1)) + DigitVal(str[Len(str)])

\* float(str): the text is a number when it is made of digits
float(str) ==
  IF Len(str) > 0 /\ \A i \in DOMAIN str : IsDigit(str[i])
    THEN Ok(Number(str)) ELSE Raise("ValueError")

(***************************************************************************)
(* obslocation: the sign of each coordinate from the presence of "s" and   *)
(* of "e" anywhere in the string, the letters blanked, the first two       *)
(* groups read as hundredths of a degree.                                  *)
(***************************************************************************)
\* a reading of the location that ignores the hemisphere letters
obslocation_nosign(locstr) ==
  LET groups == Split(BlankLetters(locstr))
  IN IF Len(groups) < 1 THEN Raise("IndexError")
     ELSE IF ~float(groups[1]).ok THEN Raise("ValueError")
     ELSE IF Len(groups) < 2 THEN Raise("IndexError")
     ELSE IF ~float(groups[2]).ok THEN Raise("ValueError")
     ELSE Ok(<<float(groups[1]).val, float(groups[2]).val>>)

obslocation(locstr) ==
  LET lat_scale == IF Contains(<<"s">>, LowerStr(locstr)) THEN -1 ELSE 1
      lon_scale == IF Contains(<<"e">>, LowerStr(locstr)) THEN -1 ELSE 1
      groups == Split(BlankLetters(locstr))
  IN IF Len(groups) < 1 THEN Raise("IndexError")
     ELSE IF ~float(groups[1]).ok THEN Raise("ValueError")
     ELSE IF Len(groups) < 2 THEN Raise("IndexError")
     ELSE IF ~float(groups[2]).ok THEN Raise("ValueError")
     ELSE Ok(<<lat_scale * float(groups[1]).val, lon_scale * float(groups[2]).val>>)

(***************************************************************************)
(* locations / TEMPDROP.locate, the scan.  The lower-cased lines that      *)
(* contain any marker are collected into a set; str(set).split() is the    *)
(* token list: the tokens of the lines in the set's iteration order, the   *)
(* first token of a line carrying the opening quote of its repr and the    *)
(* last one the closing quote.  order is that iteration order.             *)
(***************************************************************************)
infostrs_list == << <<"r", "e", "l">>, <<"s", "p", "g">>, <<"s", "p", "l">> >>

MarkerName(infostr) ==
  IF infostr = infostrs_list[1] THEN "rel"
  ELSE IF infostr = infostrs_list[2] THEN "spg" ELSE "spl"

MarkerLines(tempdrop) ==
  {LowerLine(tempdrop[k]) : k \in
     {i \in DOMAIN tempdrop :
        \E m \in DOMAIN infostrs_list : LineContains(infostrs_list[m], LowerLine(tempdrop[i]))}}

\* the orders in which a set of lines can be iterated
SetOrders(S) ==
  {o \in [1..Cardinality(S) -> S] : \A i, j \in DOMAIN o : i # j => o[i] # o[j]}

\* the quote of repr(line): a double quote when the line holds an apostrophe
\* and no double quote, an apostrophe otherwise
ReprQuote(line) ==
  IF /\ \E k \in DOMAIN line : Contains(<<"'">>, line[k])
     /\ ~\E k \in DOMAIN line : Contains(<<"\"">>, line[k])
    THEN "\"" ELSE "'"

\* repr escapes the apostrophes of a token that is quoted with apostrophes
RECURSIVE ReprEscape(_, _)
ReprEscape(token, quote) ==
  IF Len(token) = 0 THEN <<>>
  ELSE (IF quote = "'" /\ Head(token) = "'" THEN <<"\\", "'">> ELSE <<Head(token)>>)
       \o ReprEscape(Tail(token), quote)

ReprLine(line, first, last) ==
  LET quote == ReprQuote(line)
  IN [k \in DOMAIN line |->
        (IF k = 1 THEN (IF first THEN <<"{", quote>> ELSE <<quote>>) ELSE <<>>)
        \o ReprEscape(line[k], quote)
        \o (IF k = Len(line) THEN (IF last THEN <<quote, "}">> ELSE <<quote, ",">>) ELSE <<>>)]

RECURSIVE ReprTokens(_, _)
ReprTokens(order, k) ==
  IF Len(order) = 0 THEN << <<"s", "e", "t", "(", ")">> >>
  ELSE IF k > Len(order) THEN <<>>
  ELSE ReprLine(order[k], k = 1, k = Len(order)) \o ReprTokens(order, k + 1)

\* for (idx, element) in enumerate(obinfo_str): if infostr in element: break
FindMarker(obinfo_str, infostr) ==
  LET hits == {i \in DOMAIN obinfo_str : Contains(infostr, obinfo_str[i])}
  IN IF hits = {} THEN Len(obinfo_str) ELSE SetMin(hits)

\* the body of the try block for one marker
LocateOne(obinfo_str, infostr) ==
  LET idx == FindMarker(obinfo_str, infostr)
  IN IF idx + 2 > Len(obinfo_str) THEN Raise("IndexError")
     ELSE obslocation(obinfo_str[idx + 1])

Scan(tempdrop, order) ==
  LET obinfo_str == ReprTokens(order, 1)
      res == [m \in DOMAIN infostrs_list |-> LocateOne(obinfo_str, infostrs_list[m])]
      found == {m \in DOMAIN infostrs_list : res[m].ok}
  IN [locate |-> [n \in {MarkerName(infostrs_list[m]) : m \in found} |->
                    res[CHOOSE m \in found : MarkerName(infostrs_list[m]) = n].val],
      warned |-> {MarkerName(infostrs_list[m]) : m \in DOMAIN infostrs_list \ found}]

(***************************************************************************)
(* The observation context tempdrop_obj and its interp / layer / locate    *)
(* namespaces are attribute bags: functions from attribute names to        *)
(* values.  Reading an attribute that was never set raises                 *)
(* AttributeError.                                                         *)
(***************************************************************************)
Has(o, k) == k \in DOMAIN o

SetAttr(o, k, v) == [x \in DOMAIN o \cup {k} |-> IF x = k THEN v ELSE o[x]]

Namespace == [x \in {} |-> 0]

(***************************************************************************)
(* Paths are sequences of their "."-separated parts; the files of the      *)
(* working directory are a function from the paths that exist to their     *)
(* lines.                                                                  *)
(***************************************************************************)
ftninfile == <<"fort", "12">>

ftnoutfile == <<"fort", "99">>

filelist == <<ftninfile, ftnoutfile>>

\* a removal that removes nothing
removefiles_keep(files, paths) == files

\* fileio_interface.removefiles
removefiles(files, paths) == [q \in DOMAIN files \ Range(paths) |-> files[q]]

\* open(path, "w") ... write: the file is created or replaced
WriteFile(files, path, lines) ==
  [q \in DOMAIN files \cup {path} |-> IF q = path THEN lines ELSE files[q]]

(***************************************************************************)
(* tempdrop: the text of the message file, split into lines.               *)
(***************************************************************************)
tempdrop(obj, files) ==
  IF obj.filepath \in DOMAIN files
    THEN Ok(SetAttr(obj, "tempdrop", files[obj.filepath]))
    ELSE Fail("IOError", obj)

(***************************************************************************)
(* dateinfo: datestrcomps (external) of the part of the base name before   *)
(* the first ".", read as %Y%m%d%H%M.  The calendar is a table of the      *)
(* date strings of the model: the day as yymmdd and the second of the      *)
(* day.                                                                    *)
(***************************************************************************)
datestrcomps(datestr) ==
  IF datestr = "202401241200" THEN Ok([yymmdd |-> 240124, cycle |-> 43200])
  ELSE IF datestr = "202401242359" THEN Ok([yymmdd |-> 240124, cycle |-> 86340])
  ELSE Raise("ValueError")

dateinfo(obj) ==
  LET datestr == obj.filepath[1]
  IN IF datestrcomps(datestr).ok
       THEN Ok(SetAttr(obj, "dateinfo", datestrcomps(datestr).val))
       ELSE Fail(datestrcomps(datestr).err, obj)

(***************************************************************************)
(* locations (hsa.py): every marker that is found and parses is set in     *)
(* locate, every other one is logged as a warning; the function returns.   *)
(***************************************************************************)
locations(obj, order) ==
  Ok(SetAttr(obj, "locate", Scan(obj.tempdrop, order).locate))

(***************************************************************************)
(* TEMPDROP.locate: the same scan, but a marker is stored as (lat, lon,    *)
(* timestr), timestr being the token that follows the location string in   *)
(* str(set).split(), with the quote and brace or comma of the repr when it *)
(* is the last token of its line.  The statements of lines 589-593 follow: *)
(* the bare name prin, which is not defined anywhere, raises NameError     *)
(* before the print and the quit() that follow it.                         *)
(***************************************************************************)
locate(obj, order) ==
  LET obinfo_str == ReprTokens(order, 1)
      found == Scan(obj.tempdrop, order).locate
      timestr(n) ==
        obinfo_str[FindMarker(obinfo_str,
                              infostrs_list[CHOOSE m \in DOMAIN infostrs_list :
                                              MarkerName(infostrs_list[m]) = n]) + 2]
  IN Fail("NameError",
          SetAttr(obj, "locate", [n \in DOMAIN found |-> Append(found[n], timestr(n))]))

(***************************************************************************)
(* drop (obsio.sonde.sondelib, external): the decoder writes the level     *)
(* line of a coded group to Fortran unit 99, the file fort.99 of the       *)
(* working directory.  The coded group of an XX line is its second token;  *)
(* the columns of a level line are in the order of the level schema.  A    *)
(* line of the file records the run that wrote it (by).                    *)
(***************************************************************************)
cls_schema == <<"pres", "temp", "rh", "hgt", "uwnd", "vwnd", "flag">>

DecodeGroup(line) ==
  IF Len(line) < 2 THEN <<>>
  ELSE IF line[2] = <<"1">> THEN <<500, -10, 40, 5800, 6, 8, "MANL">>
  ELSE IF line[2] = <<"2">> THEN <<700, 4, 60, missing_data, 8, 6, "sigl">>
  ELSE IF line[2] = <<"3">> THEN <<900, 20, 80, 1000, -8, 6, "manl">>
  ELSE IF line[2] = <<"4">> THEN <<psfc_flag, 22, 90, 1004, 0, 0, "manl">>
  ELSE <<>>

\* what one call of drop appends to fort.99; a garbled line lacks columns
drop(line, outcome, me) ==
  LET cols == DecodeGroup(line)
  IN IF cols = <<>> THEN <<>>
     ELSE IF outcome = "garbled" THEN <<[by |-> me, cols |-> SubSeq(cols, 1, 2)]>>
     ELSE <<[by |-> me, cols |-> cols]>>

iflags == <<2>>

\* a test for the coded-group marker that minds the case
IsXX_upper(line) == LineContains(<<"X", "X">>, line)

IsXX(line) == LineContains(<<"x", "x">>, LowerLine(line))

\* the calls of drop that decode makes: one per XX line and decode flag
RECURSIVE DropCalls(_)
DropCalls(lines) ==
  IF Len(lines) = 0 THEN <<>>
  ELSE (IF IsXX(lines[1]) THEN [f \in DOMAIN iflags |-> lines[1]] ELSE <<>>)
       \o DropCalls(DropFirst(lines))

RECURSIVE DropAll(_, _, _)
DropAll(calls, outcome, me) ==
  IF Len(calls) = 0 THEN <<>>
  ELSE drop(calls[1], outcome, me) \o DropAll(DropFirst(calls), outcome, me)

(***************************************************************************)
(* decode: the two temporary files are removed, each path is looked at     *)
(* once more and removed when something is there, fort.12 is linked to     *)
(* the message and fort.99 created empty, the XX lines are decoded into    *)
(* fort.99, fort.99 is read back and both files are removed.  Every call   *)
(* of decode is a step of the two decoding runs below.                     *)
(***************************************************************************)
\* fileio_interface.fileexist
fileexist(files, path) == path \in DOMAIN files

\* fileio_interface.symlink: fort.12 stands for the message
symlink(files, srcfile, dstfile) == WriteFile(files, dstfile, files[srcfile])

\* fileio_interface.touch: the file is created empty unless it exists
touch(files, path) == IF path \in DOMAIN files THEN files ELSE WriteFile(files, path, <<>>)

\* the calls of drop append to fort.99, which the first of them opens
DecodeWrite(files, calls, outcome, me) ==
  WriteFile(files, ftnoutfile,
            (IF ftnoutfile \in DOMAIN files THEN files[ftnoutfile] ELSE <<>>)
            \o DropAll(calls, outcome, me))

(***************************************************************************)
(* frmtsonde: the tokens of every decoded line zipped with the schema      *)
(* (IndexError when a line has fewer tokens than the schema has fields),   *)
(* the missing-data value replaced by NaN in every field, the level flag   *)
(* included.  A token that reads as a number is a number after             *)
(* dict_formatter, any other token stays text: a number never equals text. *)
(***************************************************************************)
\* value == other for two values either of which may be a number or text
SameValue(value, other) == ToString(value) = ToString(other)

\* a formatting that keeps the sentinel
FormatLine_keepmissing(cols) ==
  [key \in Range(cls_schema) |-> cols[CHOOSE j \in DOMAIN cls_schema : cls_schema[j] = key]]

FormatLine(cols) ==
  [key \in Range(cls_schema) |->
     LET value == cols[CHOOSE j \in DOMAIN cls_schema : cls_schema[j] = key]
     IN IF SameValue(value, missing_data) THEN NaN ELSE value]

frmtsonde(obj) ==
  IF \E i \in DOMAIN obj.decode : Len(obj.decode[i].cols) < Len(cls_schema)
    THEN Fail("IndexError", obj)
    ELSE Ok(SetAttr(obj, "frmtsonde",
                    [i \in DOMAIN obj.decode |-> FormatLine(obj.decode[i].cols)]))

(***************************************************************************)
(* interpsonde: the working level set (pressure below the surface          *)
(* sentinel, flag a valid level type), every variable interpolated over    *)
(* it, and the surface pressure.  itemgetter over idx_list raises          *)
(* TypeError for an empty idx_list, and for a single index it returns a    *)
(* scalar, of which list() raises TypeError.  A flag that is a number (the *)
(* NaN that frmtsonde stores for a missing flag) has no lower(): the       *)
(* filter raises AttributeError at the first level below the surface       *)
(* sentinel that has one.                                                  *)
(***************************************************************************)
validlevs_list == {"manl", "sigl"}

varname_list == <<"hgt", "pres", "rh", "temp", "uwnd", "vwnd">>

\* str.lower() of a level flag
LowerFlag(flag) == IF flag = "MANL" THEN "manl" ELSE IF flag = "SIGL" THEN "sigl" ELSE flag

Column(frmt, varname) == [i \in DOMAIN frmt |-> frmt[i][varname]]

\* a working set that retains every level
WorkingSet_all(frmt) == DOMAIN frmt

\* the levels at which the filter reaches flag.lower() with a flag that is NaN
NoLower(frmt) ==
  {i \in DOMAIN frmt :
     /\ ~IsNaN(frmt[i].pres)
     /\ frmt[i].pres < psfc_flag
     /\ SameValue(frmt[i].flag, NaN)}

WorkingSet(frmt) ==
  {i \in DOMAIN frmt :
     /\ ~IsNaN(frmt[i].pres)
     /\ frmt[i].pres < psfc_flag
     /\ ~SameValue(frmt[i].flag, NaN)
     /\ LowerFlag(frmt[i].flag) \in validlevs_list}

\* the entries of a column at the indices of idx_list, in index order
RECURSIVE Pick(_, _)
Pick(column, S) ==
  IF S = {} THEN <<>>
  ELSE <<column[SetMin(S)]>> \o Pick(column, S \ {SetMin(S)})

interpsonde(obj) ==
  LET frmt == obj.frmtsonde
      idx_list == WorkingSet(frmt)
      pres == Pick(Column(frmt, "pres"), idx_list)
      vars == [v \in Range(varname_list) |-> interp(Pick(Column(frmt, v), idx_list), pres)]
      done == [v \in Range(varname_list) \cup {"flag", "psfc"} |->
                 IF v = "flag" THEN Pick(Column(frmt, "flag"), idx_list)
                 ELSE IF v = "psfc"
                   THEN sfcpres(Column(frmt, "pres"), Column(frmt, "hgt"))
                 ELSE vars[v]]
  IN IF NoLower(frmt) # {}
       THEN Fail("AttributeError", SetAttr(obj, "interp", Namespace))
     ELSE IF Cardinality(idx_list) <= 1
       THEN Fail("TypeError", SetAttr(obj, "interp", Namespace))
       ELSE Ok(SetAttr(obj, "interp", done))

(***************************************************************************)
(* correct: the layer means of pressure, temperature and both wind         *)
(* components, chopped, and the fall rate interpolated onto the levels.    *)
(***************************************************************************)
LayerOf(vararr, junk) == choparr(layer_mean(vararr, junk))

correct(obj, junk) ==
  LET it == obj.interp
      layer == [avgp |-> LayerOf(it.pres, junk), avgt |-> LayerOf(it.temp, junk),
                avgu |-> LayerOf(it.uwnd, junk), avgv |-> LayerOf(it.vwnd, junk)]
      rate == interp(fallrate(layer.avgp, layer.avgt, it.psfc), it.pres)
  IN SetAttr(SetAttr(obj, "layer", layer), "interp", SetAttr(it, "fallrate", rate))

(***************************************************************************)
(* The trigonometry of the drift, exact on the winds of the model: the     *)
(* wind speed sqrt(u*u + v*v), the heading 90 + degrees(arctan2(u, v)) in  *)
(* whole degrees, and bearing_geoloc (diags.grids, external), which moves  *)
(* a location by dist along a heading; ten times the cosine and the sine   *)
(* of the headings of the model are whole numbers.                         *)
(***************************************************************************)
Sqrt(n) == CHOOSE r \in 0..n : r * r <= n /\ n < (r + 1) * (r + 1)

Speed(u, v) == IF IsNaN(u) \/ IsNaN(v) THEN NaN ELSE Sqrt(u * u + v * v)

arctan2deg(u, v) ==
  IF u = 6 /\ v = 8 THEN 37
  ELSE IF u = -8 /\ v = 6 THEN -53
  ELSE IF u = 8 /\ v = 6 THEN 53
  ELSE IF u = 0 /\ v >= 0 THEN 0
  ELSE IF u = 0 THEN 180
  ELSE IF v = 0 /\ u > 0 THEN 90
  ELSE -90

Cos10(heading) ==
  IF heading = 127 THEN -6 ELSE IF heading = 37 THEN 8 ELSE IF heading = 143 THEN -8
  ELSE IF heading = 90 THEN 0 ELSE IF heading = 270 THEN 0
  ELSE IF heading = 180 THEN -10 ELSE 10

Sin10(heading) ==
  IF heading = 127 THEN 8 ELSE IF heading = 37 THEN 6 ELSE IF heading = 143 THEN 6
  ELSE IF heading = 90 THEN 10 ELSE IF heading = 270 THEN -10
  ELSE 0

bearing_geoloc(loc1, dist, heading) ==
  <<loc1[1] + ((dist * Cos10(heading)) \div 10), loc1[2] + ((dist * Sin10(heading)) \div 10)>>

\* haversine (diags.grids, external): the distance between two locations
haversine(loc1, loc2) == Abs(loc1[1] - loc2[1]) + Abs(loc1[2] - loc2[2])

(***************************************************************************)
(* __normalize__ / TEMPDROP.normalize: each axis of the integrated         *)
(* trajectory mapped linearly onto the span between rel and spg.  The      *)
(* division by max - min raises ZeroDivisionError when the axis has no     *)
(* span; the latitudes are stored before the longitudes are computed.      *)
(***************************************************************************)
\* a rescaling that moves the sequence to norma and does not stretch it
Rescale_shift(xs, norma, normb) ==
  LET lo == SetMin(Range(xs))
  IN [i \in DOMAIN xs |-> norma + (xs[i] - lo)]

\* a rescaling that maps the smallest element to normb and the largest to norma
Rescale_mirror(xs, norma, normb) ==
  LET lo == SetMin(Range(xs))
      hi == SetMax(Range(xs))
  IN [i \in DOMAIN xs |-> normb - (((xs[i] - lo) * (normb - norma)) \div (hi - lo))]

Rescale(xs, norma, normb) ==
  LET lo == SetMin(Range(xs))
      hi == SetMax(Range(xs))
  IN [i \in DOMAIN xs |-> norma + (((xs[i] - lo) * (normb - norma)) \div (hi - lo))]

Span(xs) == SetMax(Range(xs)) - SetMin(Range(xs))

\* a normalization that divides as numpy does: a zero span gives nan or inf
\* and nothing is raised
normalize_numpy(obj, xlat_list, xlon_list) ==
  LET rel == obj.locate.rel
      spg == obj.locate.spg
      Scaled(xs, norma, normb) ==
        [i \in DOMAIN xs |->
           XAdd(norma, XDiv((xs[i] - SetMin(Range(xs))) * (normb - norma), Span(xs)))]
      lat == Scaled(xlat_list, SetMin({rel[1], spg[1]}), SetMax({rel[1], spg[1]}))
      lon == Scaled(xlon_list, SetMin({rel[2], spg[2]}), SetMax({rel[2], spg[2]}))
  IN Ok(SetAttr(obj, "interp", SetAttr(SetAttr(obj.interp, "lat", lat), "lon", lon)))

normalize(obj, xlat_list, xlon_list) ==
  IF ~Has(obj.locate, "spg") THEN Fail("AttributeError", obj)
  ELSE LET rel == obj.locate.rel
           spg == obj.locate.spg
           norma_xlat == SetMin({rel[1], spg[1]})
           normb_xlat == SetMax({rel[1], spg[1]})
           norma_xlon == SetMin({rel[2], spg[2]})
           normb_xlon == SetMax({rel[2], spg[2]})
           withlat == SetAttr(obj, "interp",
                        SetAttr(obj.interp, "lat", Rescale(xlat_list, norma_xlat, normb_xlat)))
       IN IF Span(xlat_list) = 0 THEN Fail("ZeroDivisionError", obj)
          ELSE IF Span(xlon_list) = 0 THEN Fail("ZeroDivisionError", withlat)
          ELSE Ok(SetAttr(withlat, "interp",
                    SetAttr(withlat.interp, "lon", Rescale(xlon_list, norma_xlon, normb_xlon))))

(***************************************************************************)
(* advect: the trajectory from the release point, one step of              *)
(* bearing_geoloc per level, every position appended to the list that      *)
(* starts with the release point itself; then normalize.  locate.rel is    *)
(* indexed and then unpacked into (xlat, xlon): a release point that is    *)
(* not a pair raises IndexError or ValueError.                             *)
(***************************************************************************)
\* rel[0], rel[1] and (xlat, xlon) = rel
Unpack(rel) ==
  IF Len(rel) < 2 THEN "IndexError" ELSE IF Len(rel) > 2 THEN "ValueError" ELSE "none"

RECURSIVE Trajectory(_, _, _, _)
Trajectory(loc, dist, heading, idx) ==
  IF idx > Len(dist) THEN <<>>
  ELSE LET nxt == bearing_geoloc(loc, dist[idx], heading[idx])
       IN <<nxt>> \o Trajectory(nxt, dist, heading, idx + 1)

\* an advection that leaves the context alone when a location is absent
advect_skip(obj) ==
  IF ~Has(obj.locate, "rel") \/ ~Has(obj.locate, "spg") THEN Ok(obj)
  ELSE IF Unpack(obj.locate.rel) # "none" THEN Fail(Unpack(obj.locate.rel), obj)
  ELSE LET rel == obj.locate.rel
           path == <<rel>> \o Trajectory(rel, obj.interp.dist, obj.interp.heading, 1)
       IN normalize(obj, [i \in DOMAIN path |-> path[i][1]], [i \in DOMAIN path |-> path[i][2]])

\* an advection that leaves the distance travelled so far in interp.dist
advect_accumulate(obj) ==
  IF ~Has(obj.locate, "rel") THEN Fail("AttributeError", obj)
  ELSE IF Unpack(obj.locate.rel) # "none" THEN Fail(Unpack(obj.locate.rel), obj)
  ELSE LET rel == obj.locate.rel
           path == <<rel>> \o Trajectory(rel, obj.interp.dist, obj.interp.heading, 1)
           total == [k \in DOMAIN obj.interp.dist |->
                       obj.interp.dist[k] + (IF k = 1 THEN 0 ELSE obj.interp.dist[k - 1])]
           r == normalize(obj, [i \in DOMAIN path |-> path[i][1]], [i \in DOMAIN path |-> path[i][2]])
       IN [r EXCEPT !.val = SetAttr(r.val, "interp", SetAttr(r.val.interp, "dist", total))]

advect(obj) ==
  IF ~Has(obj.locate, "rel") THEN Fail("AttributeError", obj)
  ELSE IF Unpack(obj.locate.rel) # "none" THEN Fail(Unpack(obj.locate.rel), obj)
  ELSE LET rel == obj.locate.rel
           path == <<rel>> \o Trajectory(rel, obj.interp.dist, obj.interp.heading, 1)
       IN normalize(obj, [i \in DOMAIN path |-> path[i][1]], [i \in DOMAIN path |-> path[i][2]])

(***************************************************************************)
(* TEMPDROP.drift: correct, the heading and the travel distance of every   *)
(* level, advect.                                                          *)
(***************************************************************************)
drift(obj, junk) ==
  LET c == correct(obj, junk)
      it == c.interp
      heading == [i \in DOMAIN it.uwnd |-> 90 + arctan2deg(it.uwnd[i], it.vwnd[i])]
      dist == [i \in DOMAIN it.uwnd |-> Mul(Speed(it.uwnd[i], it.vwnd[i]), it.fallrate[i])]
  IN advect(SetAttr(c, "interp", SetAttr(SetAttr(it, "heading", heading), "dist", dist)))

(***************************************************************************)
(* update_time (advect.py, advect/update_time.py): the elapsed seconds of  *)
(* every step of the corrected trajectory, distance over the wind speed    *)
(* of the earlier level (numpy division: a zero speed gives inf, or nan    *)
(* for a zero distance, and no exception); the cycle's own date and time   *)
(* followed by the cycle advanced by every partial sum of the offsets      *)
(* (datestrupdate, external: a timedelta of inf raises OverflowError, of   *)
(* nan ValueError); both lists chopped.                                    *)
(***************************************************************************)
Quot(dist, velo) ==
  IF IsNaN(dist) \/ IsNaN(velo) THEN NaN
  ELSE IF velo = 0 THEN (IF dist = 0 THEN NaN ELSE Inf)
  ELSE dist \div velo

\* what stops the step of the offset loop that ends at position k: lon,
\* uwnd and vwnd are read in turn, an absent one raises AttributeError and a
\* short one IndexError
StepError(it, k) ==
  IF ~Has(it, "lon") THEN "AttributeError"
  ELSE IF Len(it.lon) < k THEN "IndexError"
  ELSE IF ~Has(it, "uwnd") THEN "AttributeError"
  ELSE IF Len(it.uwnd) < k - 1 THEN "IndexError"
  ELSE IF ~Has(it, "vwnd") THEN "AttributeError"
  ELSE IF Len(it.vwnd) < k - 1 THEN "IndexError"
  ELSE "none"

\* offset_seconds after the steps that end at the positions up to n: [0]
\* and one quotient per step
Offsets(it, n) ==
  [k \in 1..(IF n < 1 THEN 1 ELSE n) |->
     IF k = 1 THEN 0
     ELSE Quot(haversine(<<it.lat[k - 1], it.lon[k - 1]>>, <<it.lat[k], it.lon[k]>>),
               Speed(it.uwnd[k - 1], it.vwnd[k - 1]))]

\* sum(offset_seconds[0:idx]) for the 0-based idx = n
RECURSIVE PrefixSum(_, _)
PrefixSum(offs, n) ==
  IF n = 0 THEN 0
  ELSE LET rest == PrefixSum(offs, n - 1)
       IN IF IsNaN(rest) \/ IsNaN(offs[n]) THEN NaN
          ELSE IF rest = Inf \/ offs[n] = Inf THEN Inf
          ELSE rest + offs[n]

Finite(x) == ~IsNaN(x) /\ x # Inf

\* datestrupdate with "%y%m%d." and with "%H%M"
FmtDate(di, dtime) == di.yymmdd + ((di.cycle + dtime) \div 86400)

FmtTime(di, dtime) ==
  LET sec == (di.cycle + dtime) % 86400
  IN (sec \div 3600) * 100 + ((sec % 3600) \div 60)

update_time(obj) ==
  IF ~Has(obj, "interp") THEN Fail("AttributeError", obj)
  ELSE IF ~Has(obj.interp, "lat")
    \* offset_seconds = [0] is assigned before len(interp.lat) is evaluated
    THEN Fail("AttributeError",
              SetAttr(obj, "interp", SetAttr(obj.interp, "offset_seconds", <<0>>)))
  ELSE
    LET it == obj.interp
        stopped == {k \in 2..Len(it.lat) : StepError(it, k) # "none"}
        offs == Offsets(it, IF stopped = {} THEN Len(it.lat) ELSE SetMin(stopped) - 1)
        timed == SetAttr(it, "offset_seconds", offs)
        dtime_list == [k \in DOMAIN offs |-> PrefixSum(offs, k - 1)]
        bad == {k \in DOMAIN dtime_list : ~Finite(dtime_list[k])}
        n == IF bad = {} THEN Len(dtime_list) ELSE SetMin(bad) - 1
        yymmdd == <<FmtDate(obj.dateinfo, 0)>>
                  \o [k \in 1..n |-> FmtDate(obj.dateinfo, dtime_list[k])]
        hhmm == <<FmtTime(obj.dateinfo, 0)>>
                \o [k \in 1..n |-> FmtTime(obj.dateinfo, dtime_list[k])]
        set(a, b) == SetAttr(obj, "interp", SetAttr(SetAttr(timed, "yymmdd", a), "hhmm", b))
    IN IF stopped # {}
         THEN Fail(StepError(it, SetMin(stopped)), SetAttr(obj, "interp", timed))
       ELSE IF ~Has(obj, "dateinfo")
         THEN Fail("AttributeError", SetAttr(obj, "interp", timed))
       ELSE IF bad # {}
         THEN Fail(IF IsNaN(dtime_list[SetMin(bad)]) THEN "ValueError" ELSE "OverflowError",
                   set(yymmdd, hhmm))
       ELSE Ok(set(choparr(yymmdd), choparr(hhmm)))

(***************************************************************************)
(* write_hsa (hsa.py, hsa/write.py): the file named by the message path    *)
(* with ".hsa" appended is opened for writing, and one line is written     *)
(* per entry of interp.pres.  Reading interp.yymmdd, hhmm, lat or lon      *)
(* raises AttributeError when the drift stages did not set them; the file  *)
(* is closed with the lines written so far.                                *)
(***************************************************************************)
HsaLine(it, idx) ==
  <<1, it.yymmdd[idx], it.hhmm[idx], it.lat[idx], it.lon[idx], it.pres[idx],
    it.temp[idx], it.rh[idx], it.hgt[idx], it.uwnd[idx], it.vwnd[idx], it.flag[idx]>>

hsa_outfile(filepath) == Append(filepath, "hsa")

write_hsa(obj, files) ==
  LET it == obj.interp
      complete == {"yymmdd", "hhmm", "lat", "lon"} \subseteq DOMAIN it
  IN IF Len(it.pres) > 0 /\ ~complete
       THEN [ok |-> FALSE, val |-> obj, err |-> "AttributeError",
             files |-> WriteFile(files, hsa_outfile(obj.filepath), <<>>)]
       ELSE [ok |-> TRUE, val |-> obj, err |-> "none",
             files |-> WriteFile(files, hsa_outfile(obj.filepath),
                                 [idx \in DOMAIN it.pres |-> HsaLine(it, idx)])]

(***************************************************************************)
(* TEMPDROP.write_hsa: the file "test.hsa" is opened for writing; the      *)
(* first line reads interp.ymd, an attribute no stage sets, which raises   *)
(* AttributeError.                                                         *)
(***************************************************************************)
test_hsa == <<"test", "hsa">>

write_hsa_class(obj, files) ==
  IF Len(obj.interp.pres) > 0
    THEN [ok |-> FALSE, val |-> obj, err |-> "AttributeError",
          files |-> WriteFile(files, test_hsa, <<>>)]
    ELSE [ok |-> TRUE, val |-> obj, err |-> "none",
          files |-> WriteFile(files, test_hsa, <<>>)]

(***************************************************************************)
(* The messages of the model.  A message is its XX lines, one coded level  *)
(* each and no level twice, followed by the 62626 line, which holds for    *)
(* each of REL, SPG and SPL either nothing, or the marker with a location  *)
(* and a time, or the marker with a location that does not parse.          *)
(***************************************************************************)
MarkerKinds == {"none", "good", "bad"}

MarkerTokens(name, kind) ==
  LET marker == IF name = "rel" THEN <<"R", "E", "L">>
                ELSE IF name = "spg" THEN <<"S", "P", "G">> ELSE <<"S", "P", "L">>
      good == IF name = "rel" THEN <<"1", "0", "N", "2", "0", "W">>
              ELSE IF name = "spg" THEN <<"1", "4", "N", "2", "6", "W">>
              ELSE <<"1", "4", "S", "2", "6", "E">>
      bad == IF name = "rel" THEN <<"N", "W">>
             ELSE IF name = "spg" THEN <<"1", "'", "4", "N", "2", "6", "W">>
             ELSE <<"1", "4", "S">>
  IN IF kind = "none" THEN <<>>
     ELSE <<marker, IF kind = "good" THEN good ELSE bad, <<"1", "2", "0", "5">>>>

MarkerLine(rel, spg, spl) ==
  << <<"6", "2", "6", "2", "6">> >> \o MarkerTokens("rel", rel)
     \o MarkerTokens("spg", spg) \o MarkerTokens("spl", spl)

Codes == {<<"1">>, <<"2">>, <<"3">>, <<"4">>}

Bodies ==
  UNION {{b \in [1..n -> Codes] : \A i, j \in 1..n : i # j => b[i] # b[j]} : n \in 0..MaxBody}

BodyLines(body) == [i \in DOMAIN body |-> << <<"X", "X", "A", "A">>, body[i] >>]

Messages ==
  {BodyLines(b) \o <<MarkerLine(r, g, l)>> :
     b \in Bodies, r \in MarkerKinds, g \in MarkerKinds, l \in MarkerKinds}

GoodName == <<"202401241200", "KNHC">>

BadName == <<"sonde", "txt">>

\* what an earlier run that failed in decode left behind
StaleFiles ==
  (ftninfile :> << << <<"X", "X", "A", "A">>, <<"3">> >> >>)
  @@ (ftnoutfile :> <<[by |-> "old", cols |-> DecodeGroup(<< <<"X", "X", "A", "A">>, <<"3">> >>)]>>)

NoFiles == [q \in {} |-> <<>>]

Disks ==
  {NoFiles} \cup {GoodName :> m : m \in Messages}
            \cup {BadName :> BodyLines(<< <<"1">>, <<"3">> >>) \o <<MarkerLine("good", "good", "none")>>}

(***************************************************************************)
(* One run of the pipeline, TEMPDROP.run: the files of the working         *)
(* directory, the context tempdrop_obj, the stage that run is about to     *)
(* call (or "idle", "done", "failed"), the exception that ended the run,   *)
(* the stages that have run and the markers warned about.                  *)
(***************************************************************************)
VARIABLES correct_drift, correct_time, files, obj, pc, err, trace, warned

(***************************************************************************)
(* Two runs that decode in the same working directory, one statement of    *)
(* decode at a time: whether the caller serializes them, where each run    *)
(* is in decode, the decoder calls it has made and the lines it read back. *)
(***************************************************************************)
VARIABLES serialized, dpc, dcalls, dlines

(***************************************************************************)
(* One call of a function of the pipeline on its own: the function, its    *)
(* arguments, whether it has been applied, and what it returned.           *)
(***************************************************************************)
VARIABLES fn, arg, applied, res

vars == <<correct_drift, correct_time, files, obj, pc, err, trace, warned,
          serialized, dpc, dcalls, dlines, fn, arg, applied, res>>

decoding == <<serialized, dpc, dcalls, dlines>>

unit == <<fn, arg, applied, res>>

config == <<correct_drift, correct_time, decoding, unit>>

\* no function is called on its own
NoUnit == fn = "none" /\ arg = <<>> /\ applied = FALSE /\ res = <<>>

Runs == {"r1", "r2"}

\* what numpy.empty may leave in the slot that layer_mean never assigns
JunkVals == {0, 77}

Init ==
  /\ correct_drift \in BOOLEAN
  /\ correct_time \in BOOLEAN
  /\ \E disk \in Disks, stale \in {NoFiles, StaleFiles} : files = disk @@ stale
  /\ obj = Namespace
  /\ pc = "idle"
  /\ err = "none"
  /\ trace = <<>>
  /\ warned = {}
  /\ serialized = FALSE
  /\ dpc = [p \in Runs |-> "off"]
  /\ dcalls = [p \in Runs |-> 0]
  /\ dlines = [p \in Runs |-> <<>>]
  /\ NoUnit

\* the stage that run calls after a stage has returned
run_next(stage, with_drift) ==
  IF stage = "tempdrop" THEN "dateinfo"
  ELSE IF stage = "dateinfo" THEN "locate"
  ELSE IF stage = "locate" THEN "decode"
  ELSE IF stage = "decode" THEN "frmtsonde"
  ELSE IF stage = "frmtsonde" THEN "interpsonde"
  ELSE IF stage = "interpsonde" THEN (IF with_drift THEN "drift" ELSE "write_hsa")
  ELSE IF stage = "drift" THEN "update_time"
  ELSE IF stage = "update_time" THEN "write_hsa"
  ELSE "done"

\* a driver that goes on to the next stage whatever the stage did
Finish_continue(stage, r) ==
  /\ obj' = r.val
  /\ trace' = Append(trace, stage)
  /\ pc' = run_next(stage, correct_drift)
  /\ err' = r.err

\* a stage has returned or raised: an exception propagates out of run
Finish(stage, r) ==
  /\ obj' = r.val
  /\ trace' = Append(trace, stage)
  /\ pc' = IF r.ok THEN run_next(stage, correct_drift) ELSE "failed"
  /\ err' = r.err

Run ==
  /\ pc = "idle"
  \* the caller names a message file on disk, or one that is not there
  /\ \E filepath \in (DOMAIN files \ Range(filelist)) \cup {GoodName} :
       obj' = SetAttr(Namespace, "filepath", filepath)
  /\ pc' = "tempdrop"
  /\ UNCHANGED <<config, files, err, trace, warned>>

Tempdrop ==
  /\ pc = "tempdrop"
  /\ Finish("tempdrop", tempdrop(obj, files))
  /\ UNCHANGED <<config, files, warned>>

Dateinfo ==
  /\ pc = "dateinfo"
  /\ Finish("dateinfo", dateinfo(obj))
  /\ UNCHANGED <<config, files, warned>>

Locate ==
  /\ pc = "locate"
  /\ \E order \in SetOrders(MarkerLines(obj.tempdrop)) :
       /\ Finish("locate", locate(obj, order))
       /\ warned' = Scan(obj.tempdrop, order).warned
  /\ UNCHANGED <<config, files>>

Next ==
  \/ Run
  \/ Tempdrop
  \/ Dateinfo
  \/ Locate

Spec == Init /\ [][Next]_vars

(***************************************************************************)
(* What the properties below speak of.                                     *)
(***************************************************************************)
Ended == pc \in {"done", "failed"}

Ran(stage) == stage \in Range(trace)

LastStage == IF trace = <<>> THEN "none" ELSE trace[Len(trace)]

IsPrefix(s, t) == Len(s) <= Len(t) /\ SubSeq(t, 1, Len(s)) = s

\* the message of the run; no stage writes to the message file
Message == files[obj.filepath]

\* the level lines the decoder produces for a message when it works
Decoded(msg) == DropAll(DropCalls(msg), "ok", "run")

OutputWritten == hsa_outfile(obj.filepath) \in DOMAIN files \/ test_hsa \in DOMAIN files

\* the marker of a name is present in the message with a location that parses
Parses(name, msg) ==
  \E r \in MarkerKinds, g \in MarkerKinds, l \in MarkerKinds :
     /\ msg[Len(msg)] = MarkerLine(r, g, l)
     /\ (IF name = "rel" THEN r ELSE IF name = "spg" THEN g ELSE l) = "good"

\* the stages of a run in the order of the pipeline, the two optional
\* stages each under its own flag
ExpectedStages(with_drift, with_time) ==
  <<"tempdrop", "dateinfo", "locate", "decode", "frmtsonde", "interpsonde">>
  \o (IF with_drift THEN <<"drift">> ELSE <<>>)
  \o (IF with_time THEN <<"update_time">> ELSE <<>>)
  \o <<"write_hsa">>

\* the run was given a message file that is there, under a name that reads
\* as a timestamp
ReadableInput == obj.filepath \in DOMAIN files /\ datestrcomps(obj.filepath[1]).ok

\* C1: the stages of a run are executed in the one fixed order, Drift exactly
\* when correct_drift is set and the Time Reconstructor exactly when
\* correct_time is set; the run over a message it can read executes all of
\* them and ends with the Output Writer.
C1_StageOrder ==
  /\ IsPrefix(trace, ExpectedStages(correct_drift, correct_time))
  /\ (Ended /\ ReadableInput) =>
       (pc = "done" /\ trace = ExpectedStages(correct_drift, correct_time))

\* a readable message file whose name parses, with rel and spg markers that
\* parse, and a profile of at least two retained levels with non-zero wind
\* whose trajectory is not degenerate
GoodInput ==
  /\ ReadableInput
  /\ Parses("rel", Message) /\ Parses("spg", Message)
  /\ LET o == [filepath |-> obj.filepath, decode |-> Decoded(Message),
               locate |-> Scan(Message, CHOOSE order \in SetOrders(MarkerLines(Message)) : TRUE).locate]
         f == frmtsonde(o)
         i == interpsonde(f.val)
     IN /\ f.ok
        /\ Cardinality(WorkingSet(f.val.frmtsonde)) >= 2
        /\ i.ok
        /\ \A k \in DOMAIN i.val.interp.uwnd :
              Speed(i.val.interp.uwnd[k], i.val.interp.vwnd[k]) > 0
        /\ \A junk \in JunkVals : drift(i.val, junk).ok

\* C2: a run with drift correction over a good input does not end before the
\* Output Writer: when it has ended, it has returned and the result file is
\* written.
C2_ReachesOutputWriter ==
  (Ended /\ correct_drift /\ GoodInput)
    => (pc = "done" /\ LastStage = "write_hsa"
        /\ hsa_outfile(obj.filepath) \in DOMAIN files)

\* the failure of the input: the message file is not there, or its name
\* does not read as a timestamp
InputFailure ==
  IF Ran("dateinfo") THEN ~datestrcomps(obj.filepath[1]).ok
  ELSE Ran("tempdrop") /\ obj.filepath \notin DOMAIN files

\* the stage at which the input fails
FailingStage == IF obj.filepath \notin DOMAIN files THEN "tempdrop" ELSE "dateinfo"

\* the stages a run has called when its input fails: the failing stage is
\* the last of them
FailedTrace ==
  IF FailingStage = "tempdrop" THEN <<"tempdrop">> ELSE <<"tempdrop", "dateinfo">>

\* when the message file is unreadable or its name does not parse, the run
\* has ended with the one error of that stage, the stages called are those
\* up to the failing one and no more, and there is no output file
RunFailurePropagates ==
  (pc \notin {"off", "idle"} /\ InputFailure) =>
    /\ pc = "failed"
    /\ err \in {"IOError", "ValueError"}
    /\ trace = FailedTrace
    /\ ~OutputWritten

\* a run that ended at dateinfo, on a name that is no timestamp
NameUnparsed ==
  /\ pc = "failed" /\ trace = <<"tempdrop", "dateinfo">> /\ err = "ValueError"
  /\ Has(obj, "tempdrop") /\ ~Has(obj, "dateinfo")

\* a run that ended at tempdrop, on a message file that is not there
FileUnreadable ==
  /\ pc = "failed" /\ trace = <<"tempdrop">> /\ err = "IOError"
  /\ ~Has(obj, "tempdrop")

\* C8: the location extractor returns normally whatever the markers are: a
\* marker that is not found or does not parse is warned about and absent
\* from locate, every other marker is in locate.
C8_LocateNeverFails ==
  Ran("locate") =>
    /\ LastStage = "locate" => pc # "failed"
    /\ \A name \in {"rel", "spg", "spl"} :
          IF Parses(name, Message)
            THEN Has(obj.locate, name) /\ name \notin warned
            ELSE ~Has(obj.locate, name) /\ name \in warned

(***************************************************************************)
(* decode, statement by statement, for two runs over distinct messages in  *)
(* one working directory.  Both runs use the paths fort.12 and fort.99.    *)
(* A run whose read-back finds no fort.99 is "lost"; one whose decoder     *)
(* left an output that cannot be read has "failed"; both leave the         *)
(* temporary files as they are.                                            *)
(***************************************************************************)
LateName == <<"202401242359", "KNHC">>

RunPath(p) == IF p = "r1" THEN GoodName ELSE LateName

DecodeMessages ==
  {BodyLines(b) \o <<MarkerLine("good", "good", "none")>> :
     b \in {c \in Bodies : Len(c) \in 1..2 /\ Range(c) \subseteq {<<"1">>, <<"3">>}}}

RunCalls(p) == DropCalls(files[RunPath(p)])

\* runs that start whenever they like
Resting_always(p) == TRUE

Resting(p) == dpc[p] \in {"idle", "done", "lost", "failed"}

\* line 247: the path the loop over filelist is at
LoopPath(p) == IF dpc[p] \in {"exist12", "unlink12"} THEN filelist[1] ELSE filelist[2]

InitDecode ==
  /\ correct_drift = FALSE
  /\ correct_time = FALSE
  /\ obj = Namespace
  /\ pc = "off"
  /\ err = "none"
  /\ trace = <<>>
  /\ warned = {}
  /\ serialized \in BOOLEAN
  /\ \E m1 \in DecodeMessages, m2 \in DecodeMessages, stale \in {NoFiles, StaleFiles} :
       /\ m1 # m2
       /\ files = (GoodName :> m1) @@ (LateName :> m2) @@ stale
  /\ dpc = [p \in Runs |-> "idle"]
  /\ dcalls = [p \in Runs |-> 0]
  /\ dlines = [p \in Runs |-> <<>>]
  /\ NoUnit

main == <<correct_drift, correct_time, obj, pc, err, trace, warned, unit>>

\* line 246: the files at the two paths are removed
DClean(p) ==
  /\ dpc[p] = "idle"
  /\ serialized => \A q \in Runs \ {p} : Resting(q)
  /\ files' = removefiles(files, filelist)
  /\ dpc' = [dpc EXCEPT ![p] = "exist12"]
  /\ UNCHANGED <<main, serialized, dcalls, dlines>>

\* line 248: is there a file at the path of the loop
DExist(p) ==
  /\ dpc[p] \in {"exist12", "exist99"}
  /\ dpc' = [dpc EXCEPT ![p] = IF fileexist(files, LoopPath(p))
                                 THEN (IF dpc[p] = "exist12" THEN "unlink12" ELSE "unlink99")
                                 ELSE (IF dpc[p] = "exist12" THEN "exist99" ELSE "link")]
  /\ UNCHANGED <<main, serialized, files, dcalls, dlines>>

\* line 249: the file that was found is removed
DUnlink(p) ==
  /\ dpc[p] \in {"unlink12", "unlink99"}
  /\ files' = removefiles(files, <<LoopPath(p)>>)
  /\ dpc' = [dpc EXCEPT ![p] = IF dpc[p] = "unlink12" THEN "exist99" ELSE "link"]
  /\ UNCHANGED <<main, serialized, dcalls, dlines>>

\* line 252
DLink(p) ==
  /\ dpc[p] = "link"
  /\ files' = symlink(files, RunPath(p), ftninfile)
  /\ dpc' = [dpc EXCEPT ![p] = "touch"]
  /\ UNCHANGED <<main, serialized, dcalls, dlines>>

\* line 253
DTouch(p) ==
  /\ dpc[p] = "touch"
  /\ files' = touch(files, ftnoutfile)
  /\ dpc' = [dpc EXCEPT ![p] = "drop"]
  /\ UNCHANGED <<main, serialized, dcalls, dlines>>

\* lines 255-269: the next call of drop
DDrop(p) ==
  /\ dpc[p] = "drop"
  /\ dcalls[p] < Len(RunCalls(p))
  /\ files' = DecodeWrite(files, <<RunCalls(p)[dcalls[p] + 1]>>, "ok", p)
  /\ dcalls' = [dcalls EXCEPT ![p] = dcalls[p] + 1]
  /\ UNCHANGED <<main, serialized, dpc, dlines>>

\* lines 270-273: the units are closed and fort.99 is read back
DRead(p) ==
  /\ dpc[p] = "drop"
  /\ dcalls[p] = Len(RunCalls(p))
  /\ \E outcome \in {"ok", "unreadable"} :
       /\ dpc' = [dpc EXCEPT ![p] = IF ftnoutfile \notin DOMAIN files THEN "lost"
                                    ELSE IF outcome = "ok" THEN "remove" ELSE "failed"]
       /\ dlines' = [dlines EXCEPT ![p] = IF ftnoutfile \in DOMAIN files /\ outcome = "ok"
                                            THEN files[ftnoutfile] ELSE dlines[p]]
  /\ UNCHANGED <<main, serialized, files, dcalls>>

\* line 278
DRemove(p) ==
  /\ dpc[p] = "remove"
  /\ files' = removefiles(files, filelist)
  /\ dpc' = [dpc EXCEPT ![p] = "done"]
  /\ UNCHANGED <<main, serialized, dcalls, dlines>>

NextDecode ==
  \/ \E p \in Runs : DClean(p)
  \/ \E p \in Runs : DExist(p)
  \/ \E p \in Runs : DUnlink(p)
  \/ \E p \in Runs : DLink(p)
  \/ \E p \in Runs : DTouch(p)
  \/ \E p \in Runs : DDrop(p)
  \/ \E p \in Runs : DRead(p)
  \/ \E p \in Runs : DRemove(p)

SpecDecode == InitDecode /\ [][NextDecode]_vars

\* the level lines of a run's own message
OwnLines(p) == DropAll(RunCalls(p), "ok", p)

\* C5: in a decode that no other run interleaves with, the first decoder
\* call finds fort.12 linked to the run's message and fort.99 empty,
\* whatever earlier runs left there; the read-back follows the last decoder
\* call and stores the lines of this invocation only; and when decode
\* returns, neither temporary path exists.
C5_DecodeCleanup ==
  [][serialized =>
       \A p \in Runs :
          /\ (dcalls[p] = 0 /\ dcalls'[p] = 1) =>
                (files[ftnoutfile] = <<>> /\ files[ftninfile] = files[RunPath(p)])
          /\ (dpc[p] = "drop" /\ dpc'[p] = "remove") =>
                (dcalls[p] = Len(RunCalls(p)) /\ dlines'[p] = OwnLines(p))
          /\ (dpc[p] = "remove" /\ dpc'[p] = "done") =>
                (ftninfile \notin DOMAIN files' /\ ftnoutfile \notin DOMAIN files')]_vars

\* r2 has decoded and returned after r1 failed and left its files behind
C5_AfterFailedRun ==
  /\ serialized
  /\ dpc["r1"] = "failed" /\ dpc["r2"] = "done"
  /\ dlines["r2"] = OwnLines("r2") /\ Len(dlines["r2"]) = 2
  /\ ftninfile \notin DOMAIN files /\ ftnoutfile \notin DOMAIN files

\* C6: when the decodes of the two runs are serialized, the lines a run
\* has read back are the lines of its own message, and no run loses its
\* temporary file.
C6_SerializedDecode ==
  serialized =>
    \A p \in Runs :
       /\ dpc[p] # "lost"
       /\ dpc[p] \in {"remove", "done"} =>
             (dlines[p] = OwnLines(p) /\ \A i \in DOMAIN dlines[p] : dlines[p][i].by = p)

\* decodes that are not serialized: r1 has read back lines decoded from the
\* message of r2, and r2 found its temporary file removed
C6_Interference ==
  /\ ~serialized
  /\ dpc["r1"] = "done" /\ \E i \in DOMAIN dlines["r1"] : dlines["r1"][i].by = "r2"
  /\ dpc["r2"] = "lost"

(***************************************************************************)
(* The failures of a message arise in two places: in run, at the stages    *)
(* that read the message file and its name, and in decode, at the          *)
(* read-back of the decoder's output.  SpecFailure is either a run of the  *)
(* pipeline or the two decoding runs.                                      *)
(***************************************************************************)
InitFailure == Init \/ InitDecode

NextFailure == Next \/ NextDecode

SpecFailure == InitFailure /\ [][NextFailure]_vars

\* the read-back of decode raised: fort.99 was not there, or could not be read
ReadBackFailed(p) == dpc[p] \in {"lost", "failed"}

\* a decode whose read-back failed made one decoder call for each XX line
\* of its message and stored no lines
DecodedOnce ==
  \A p \in Runs : (dpc[p] # "off" /\ ReadBackFailed(p)) =>
     (dcalls[p] = Len(RunCalls(p)) /\ dlines[p] = <<>>)

\* a decode whose read-back failed has ended: it calls the decoder no more,
\* executes no later statement, and no output file is there after any step
DecodeFailurePropagates ==
  \A p \in Runs : (dpc[p] # "off" /\ ReadBackFailed(p)) =>
     /\ dpc'[p] = dpc[p]
     /\ dcalls'[p] = dcalls[p]
     /\ dlines'[p] = dlines[p]
     /\ hsa_outfile(RunPath(p)) \notin DOMAIN files'
     /\ test_hsa \notin DOMAIN files'

\* C4: when the message file is unreadable, its name does not parse, or the
\* decoder output cannot be read back, the failure ends the processing of
\* the message with one error: the decoder is not called again, no later
\* stage or statement executes, and no output file is created.
C4_FailurePropagates ==
  /\ [](RunFailurePropagates /\ DecodedOnce)
  /\ [][DecodeFailurePropagates]_vars

\* the read-back of r1 failed after its two decoder calls, fort.99 is left
\* as the decoder wrote it, and r2 has since decoded its own message
C4_ReadBackFailed ==
  /\ dpc["r1"] = "failed" /\ dcalls["r1"] = 2 /\ dlines["r1"] = <<>>
  /\ dpc["r2"] = "done" /\ dcalls["r2"] = Len(RunCalls("r2"))

(***************************************************************************)
(* The functions of the pipeline called on their own, each on the          *)
(* arguments of a bounded set.                                             *)
(***************************************************************************)
\* the longest profile (number of levels) a function is given
MaxLevels == 3

\* the sequences over S of a length from lo to hi
SeqsOf(S, lo, hi) == UNION {[1..n -> S] : n \in lo..hi}

\* the levels of a profile as frmtsonde leaves them: retained ones, one with
\* a missing height, two at and one above the surface sentinel, one with a
\* missing pressure and one of another level type
Levels ==
  {[pres |-> 500, temp |-> -10, rh |-> 40, hgt |-> 5800, uwnd |-> 6, vwnd |-> 8, flag |-> "MANL"],
   [pres |-> 900, temp |-> 20, rh |-> 80, hgt |-> NaN, uwnd |-> -8, vwnd |-> 6, flag |-> "sigl"],
   [pres |-> 1069, temp |-> 21, rh |-> 85, hgt |-> 10, uwnd |-> 8, vwnd |-> 6, flag |-> "manl"],
   [pres |-> psfc_flag, temp |-> 22, rh |-> 90, hgt |-> 1004, uwnd |-> 0, vwnd |-> 0, flag |-> "manl"],
   [pres |-> psfc_flag, temp |-> 22, rh |-> 90, hgt |-> 1012, uwnd |-> 0, vwnd |-> 0, flag |-> "sigl"],
   [pres |-> 1080, temp |-> 23, rh |-> 90, hgt |-> 1010, uwnd |-> 0, vwnd |-> 0, flag |-> "sigl"],
   [pres |-> NaN, temp |-> 5, rh |-> 50, hgt |-> 3000, uwnd |-> 6, vwnd |-> 8, flag |-> "sigl"],
   [pres |-> 700, temp |-> 4, rh |-> 60, hgt |-> 3100, uwnd |-> 8, vwnd |-> 6, flag |-> "trop"]}

Profiles == SeqsOf(Levels, 0, MaxLevels)

\* a variable of the working set with its pressures: values that are missing
\* or not, at pressures that may repeat and come in any order
VarVals == {NaN, 10, 30, 40}
PresVals == {300, 500, 700}
Columns == UNION {[varin : [1..n -> VarVals], zarr : [1..n -> PresVals]] : n \in 0..MaxLevels}

\* trajectories as advect integrates them: the release point first, then one
\* position per level; splash points north-west of, due west of and
\* south-east of the release point
RelPoint == <<1000, 2000>>
SpgPoints == {<<1400, 2600>>, <<1000, 2600>>, <<600, 1400>>}
LatVals == {1000, 1010, 990}
LonVals == {2000, 2020, 1980}
Trajectories ==
  UNION {[spg : SpgPoints,
          xlat : {<<RelPoint[1]>> \o t : t \in [1..n -> LatVals]},
          xlon : {<<RelPoint[2]>> \o t : t \in [1..n -> LonVals]}] : n \in 1..MaxLevels}

\* the context normalize is called with
Located(spg) ==
  SetAttr(SetAttr(Namespace, "locate", [rel |-> RelPoint, spg |-> spg]), "interp", Namespace)

\* contexts as drift leaves them for update_time: one position more than
\* levels, each at one of two points and both points visited (normalize
\* leaves no axis without span), and a wind per level that blows or is calm;
\* and contexts that drift has not completed, of one or two positions, in
\* which interp.lat or interp.lon was never set
Points == {<<1000, 2000>>, <<1400, 2600>>}
Winds == {<<6, 8>>, <<0, 0>>}
Drifted ==
  UNION {[track : {t \in [1..(n + 1) -> Points] : Range(t) = Points},
          wind : [1..n -> Winds], without : {"none"}] : n \in 1..MaxLevels}
  \cup UNION {[track : [1..n -> Points], wind : [1..1 -> Winds],
               without : {"lat", "lon"}] : n \in 1..2}

Timed(track, wind, without) ==
  SetAttr(SetAttr(Namespace, "dateinfo", datestrcomps("202401241200").val), "interp",
          [v \in {"lat", "lon", "uwnd", "vwnd"} \ {without} |->
             IF v = "lat" THEN [k \in DOMAIN track |-> track[k][1]]
             ELSE IF v = "lon" THEN [k \in DOMAIN track |-> track[k][2]]
             ELSE IF v = "uwnd" THEN [k \in DOMAIN wind |-> wind[k][1]]
             ELSE [k \in DOMAIN wind |-> wind[k][2]]])

\* arrays handed to choparr and layer_mean, and the memory numpy.empty
\* hands to layer_mean
MaxSeq == 4
ArrVals == {2, 4, 8}
Arrays == SeqsOf(ArrVals, 0, MaxSeq)
Allocations == [v : Arrays, junk : JunkVals]

\* location strings: a group of digits, hemisphere letters, a second group
\* of digits and an optional last letter; each group with the number it
\* spells in hundredths of a degree
DigitGroups == {[text |-> <<"1", "0">>, val |-> 10],
                [text |-> <<"1", "4", "5">>, val |-> 145],
                [text |-> <<"0">>, val |-> 0]}
Locstrs ==
  [g1 : DigitGroups, l1 : SeqsOf({"N", "S", "s", "E"}, 1, 2),
   g2 : DigitGroups, l2 : SeqsOf({"W", "E", "e", "S"}, 0, 1)]

Locstr(a) == a.g1.text \o a.l1 \o a.g2.text \o a.l2

\* decoded lines: complete ones with the sentinel in no, one or several
\* columns or in the flag column, one with a trailing extra token and one
\* cut short
LineCols == {<<500, -10, 40, 5800, 6, 8, "MANL">>,
             <<400, -20, 30, 7000, 4, 4, missing_data>>,
             <<700, missing_data, 60, 3000, 8, 6, "sigl">>,
             <<900, 20, missing_data, missing_data, missing_data, 6, "manl">>,
             <<missing_data, 22, 90, 1004, 0, missing_data, "sigl">>,
             <<850, 15, 70, 1500, 6, 8, "trop", 0>>,
             <<300, -40>>}
DecodedLines == SeqsOf({[by |-> "run", cols |-> c] : c \in LineCols}, 0, MaxLevels)

\* message lines, each with whether it holds "xx" in either case: coded
\* groups whose marker is upper, lower or mixed case or sits inside a token,
\* a location line, and a line whose two x are in different tokens
MsgLines == {[line |-> << <<"X", "X", "A", "A">>, <<"1">> >>, xx |-> TRUE],
             [line |-> << <<"x", "x", "a", "a">>, <<"2">> >>, xx |-> TRUE],
             [line |-> << <<"X", "x", "A", "A">>, <<"3">> >>, xx |-> TRUE],
             [line |-> << <<"6", "1">>, <<"T", "x", "X">> >>, xx |-> TRUE],
             [line |-> << <<"R", "E", "L">>, <<"1", "0", "N", "2", "0", "W">> >>, xx |-> FALSE],
             [line |-> << <<"A", "X">>, <<"X", "A">> >>, xx |-> FALSE]}
MsgTexts == SeqsOf(MsgLines, 0, MaxLevels)

\* contexts as the drift stage hands them to advect: release and splash
\* points, and per level a travel distance and a heading
DistVals == {100, 200}
HeadingVals == {37, 127, 270}
Steps ==
  UNION {[spg : SpgPoints, dist : [1..n -> DistVals], heading : [1..n -> HeadingVals]] :
           n \in 1..MaxLevels}

Steered(a) ==
  SetAttr(Located(a.spg), "interp", [dist |-> a.dist, heading |-> a.heading])

(***************************************************************************)
(* ATCF.read (atcf.py): without a path it raises ATCFError; with one it    *)
(* calls read_tcvfile with that path and returns what it returns, or ends  *)
(* with the exception it raises.  None is Python's None; the result        *)
(* records the paths read_tcvfile was called with.                         *)
(*                                                                         *)
(* read_tcvfile (obsio/atcf_read.py) opens the file, FileNotFoundError     *)
(* when there is none, and parses every line that is not blank as a        *)
(* TC-vitals record; any exception of the parsing is raised as ATCFError.  *)
(* The files here hold lines of one word or blank lines; a line of one     *)
(* word has no latitude and longitude for __scalegeo__ to scale, so its    *)
(* parsing raises.  A file without records gives the empty namespace.      *)
(* The name read_tcvfile in atcf is either the function or, when a caller  *)
(* has patched it, a mock that returns mock_tcvobj for every path.         *)
(***************************************************************************)
None == "None"

\* files as they may be at the paths: each a sequence of lines
tcvfiles == ("fake/atcf/file/path.tcv" :> <<"record1", "record2">>)
            @@ ("syndat/tcvitals" :> <<"record3">>)

\* a file of two blank lines at one path, nothing at the other
blankfiles == ("syndat/tcvitals" :> <<"", "">>)

mock_tcvobj == [record1 |-> "data1", record2 |-> "data2"]

read_tcvfile(filepath, disk) ==
  IF filepath \notin DOMAIN disk THEN Raise("FileNotFoundError")
  ELSE IF \E idx \in DOMAIN disk[filepath] : disk[filepath][idx] # ""
    THEN Raise("ATCFError")
  ELSE Ok(Namespace)

read(atcf_filepath, disk, patched) ==
  IF atcf_filepath = None
    THEN [ok |-> FALSE, val |-> <<>>, err |-> "ATCFError", called |-> <<>>]
    ELSE LET tcvobj == IF patched THEN Ok(mock_tcvobj)
                       ELSE read_tcvfile(atcf_filepath, disk)
         IN [ok |-> tcvobj.ok, val |-> tcvobj.val, err |-> tcvobj.err,
             called |-> <<atcf_filepath>>]

\* the calls of ATCF.read: the path, the files on disk, read_tcvfile patched or not
Reads ==
  [atcf_filepath : {None} \cup DOMAIN tcvfiles,
   disk : {NoFiles, tcvfiles, blankfiles},
   patched : BOOLEAN]

(***************************************************************************)
(* Observation.get_config (observation.py): ObservationError without       *)
(* OBS_ROOT.  The configuration is read and obs_type_obj assigned only     *)
(* inside the branch taken when OBS_CONFIG_YAML is not set; with it set    *)
(* the return statement reads a local that was never assigned.             *)
(***************************************************************************)
config_yaml == [atcf |-> [schema |-> "atcf.yaml"], tempdrop |-> [schema |-> "tempdrop.yaml"]]

get_config(environ, obs_type) ==
  IF environ.OBS_ROOT = None THEN Raise("ObservationError")
  ELSE IF environ.OBS_CONFIG_YAML = None THEN Ok(config_yaml[obs_type])
  ELSE Raise("UnboundLocalError")

Environments ==
  [environ : [OBS_ROOT : {None, "/work/obs"}, OBS_CONFIG_YAML : {None, "/work/config.yaml"}],
   obs_type : DOMAIN config_yaml]

\* layer means as correct hands them to fallrate (a layer pressure may be
\* missing), with the surface pressure and the pressures of the level grid,
\* one level more than layers, from the top down or from the surface up
Layers ==
  UNION {[avgp : [1..n -> {600, 800, NaN}], avgt : [1..n -> {-10, 20}], psfc : {1010},
          pres : {[k \in 1..(n + 1) |-> 1000 - 100 * k], [k \in 1..(n + 1) |-> 400 + 100 * k]}] :
           n \in 0..MaxLevels}

(***************************************************************************)
(* Contexts for the drift stage and the output writers.  A sounding is     *)
(* what frmtsonde and interpsonde make of the level lines of a message     *)
(* body; a fix is the locate namespace of a 62626 line that holds REL, SPG *)
(* or both, stored by hsa.locations (pairs) or by TEMPDROP.locate (pairs   *)
(* with the time token).                                                   *)
(***************************************************************************)
Sounding(body) ==
  interpsonde(frmtsonde(SetAttr(Namespace, "decode",
                                DropAll(DropCalls(BodyLines(body)), "ok", "run"))).val)

Soundings == {body \in Bodies : Sounding(body).ok}

Fixes == [body : Soundings, rel : {"none", "good"}, spg : {"none", "good"},
          by : {"locations", "locate"}, junk : JunkVals]

Fix(a) ==
  LET msg == <<MarkerLine(a.rel, a.spg, "none")>>
      order == CHOOSE o \in SetOrders(MarkerLines(msg)) : TRUE
      ctx == SetAttr(SetAttr(SetAttr(Sounding(a.body).val, "filepath", GoodName),
                             "dateinfo", datestrcomps(GoodName[1]).val), "tempdrop", msg)
  IN IF a.by = "locations" THEN locations(ctx, order).val ELSE locate(ctx, order).val

\* the context the writer is called with: the sounding, or what drift and
\* update_time make of it with both fixes stored by hsa.locations
Profile(a) ==
  LET fixed == Fix([body |-> a.body, rel |-> "good", spg |-> "good", by |-> "locations",
                    junk |-> 0])
  IN IF a.drifted THEN update_time(drift(fixed, 0).val).val ELSE fixed

Drifts(body) ==
  LET fixed == Fix([body |-> body, rel |-> "good", spg |-> "good", by |-> "locations",
                    junk |-> 0])
  IN drift(fixed, 0).ok /\ update_time(drift(fixed, 0).val).ok

Profiled == {a \in [body : Soundings, drifted : BOOLEAN] : a.drifted => Drifts(a.body)}

FieldOf(levels, key) == [i \in DOMAIN levels |-> levels[i][key]]

UnitArgs(f) ==
  IF f = "interpsonde" THEN Profiles
  ELSE IF f = "sfcpres" THEN Profiles \ {<<>>}
  ELSE IF f = "interp" THEN Columns
  ELSE IF f = "normalize" THEN Trajectories
  ELSE IF f = "update_time" THEN Drifted
  ELSE IF f = "choparr" THEN Arrays
  ELSE IF f = "layer_mean" THEN Allocations
  ELSE IF f = "obslocation" THEN Locstrs
  ELSE IF f = "frmtsonde" THEN DecodedLines
  ELSE IF f = "decode" THEN MsgTexts
  ELSE IF f = "advect" THEN Steps
  ELSE IF f = "read" THEN Reads
  ELSE IF f = "get_config" THEN Environments
  ELSE IF f = "fallrate" THEN Layers
  ELSE IF f = "drift" THEN Fixes
  ELSE IF f = "write_hsa" THEN Profiled
  ELSE {}

UnitFns == {"interpsonde", "sfcpres", "interp", "normalize", "update_time",
            "choparr", "layer_mean", "obslocation", "frmtsonde", "decode",
            "advect", "read", "get_config", "fallrate", "drift", "write_hsa"}

InitUnit ==
  /\ correct_drift = FALSE
  /\ correct_time = FALSE
  /\ files = NoFiles
  /\ obj = Namespace
  /\ pc = "off"
  /\ err = "none"
  /\ trace = <<>>
  /\ warned = {}
  /\ serialized = FALSE
  /\ dpc = [p \in Runs |-> "off"]
  /\ dcalls = [p \in Runs |-> 0]
  /\ dlines = [p \in Runs |-> <<>>]
  /\ fn \in UnitFns
  /\ arg \in UnitArgs(fn)
  /\ applied = FALSE
  /\ res = <<>>

rest == <<correct_drift, correct_time, files, obj, pc, err, trace, warned,
          decoding, fn, arg>>

Called(f) == fn = f /\ ~applied

Returned(f) == fn = f /\ applied

ApplyInterpsonde ==
  /\ Called("interpsonde")
  /\ res' = interpsonde(SetAttr(Namespace, "frmtsonde", arg))
  /\ applied' = TRUE
  /\ UNCHANGED rest

\* interpsonde's call of sfcpres, on the columns of all the decoded levels
ApplySfcpres ==
  /\ Called("sfcpres")
  /\ res' = sfcpres(FieldOf(arg, "pres"), FieldOf(arg, "hgt"))
  /\ applied' = TRUE
  /\ UNCHANGED rest

ApplyInterp ==
  /\ Called("interp")
  /\ res' = interp(arg.varin, arg.zarr)
  /\ applied' = TRUE
  /\ UNCHANGED rest

ApplyNormalize ==
  /\ Called("normalize")
  /\ res' = normalize(Located(arg.spg), arg.xlat, arg.xlon)
  /\ applied' = TRUE
  /\ UNCHANGED rest

ApplyUpdateTime ==
  /\ Called("update_time")
  /\ res' = update_time(Timed(arg.track, arg.wind, arg.without))
  /\ applied' = TRUE
  /\ UNCHANGED rest

ApplyChoparr ==
  /\ Called("choparr")
  /\ res' = choparr(arg)
  /\ applied' = TRUE
  /\ UNCHANGED rest

ApplyLayerMean ==
  /\ Called("layer_mean")
  /\ res' = layer_mean(arg.v, arg.junk)
  /\ applied' = TRUE
  /\ UNCHANGED rest

ApplyObslocation ==
  /\ Called("obslocation")
  /\ res' = obslocation(Locstr(arg))
  /\ applied' = TRUE
  /\ UNCHANGED rest

ApplyFrmtsonde ==
  /\ Called("frmtsonde")
  /\ res' = frmtsonde(SetAttr(Namespace, "decode", arg))
  /\ applied' = TRUE
  /\ UNCHANGED rest

\* the loop of decode over the message lines: the lines handed to drop
ApplyDropCalls ==
  /\ Called("decode")
  /\ res' = DropCalls(FieldOf(arg, "line"))
  /\ applied' = TRUE
  /\ UNCHANGED rest

\* the advection engine invoked on a context, and again on what it left
ApplyAdvect ==
  /\ Called("advect")
  /\ res' = [first |-> advect(Steered(arg)), second |-> advect(advect(Steered(arg)).val)]
  /\ applied' = TRUE
  /\ UNCHANGED rest

ApplyRead ==
  /\ Called("read")
  /\ res' = read(arg.atcf_filepath, arg.disk, arg.patched)
  /\ applied' = TRUE
  /\ UNCHANGED rest

ApplyGetConfig ==
  /\ Called("get_config")
  /\ res' = get_config(arg.environ, arg.obs_type)
  /\ applied' = TRUE
  /\ UNCHANGED rest

\* fallrate, and its interpolation onto the level grid in correct
ApplyFallrate ==
  /\ Called("fallrate")
  /\ res' = [rate |-> fallrate(arg.avgp, arg.avgt, arg.psfc),
             onto |-> interp(fallrate(arg.avgp, arg.avgt, arg.psfc), arg.pres)]
  /\ applied' = TRUE
  /\ UNCHANGED rest

\* TEMPDROP.drift on a sounding with the fixes a location extractor stored
ApplyDrift ==
  /\ Called("drift")
  /\ res' = drift(Fix(arg), arg.junk)
  /\ applied' = TRUE
  /\ UNCHANGED rest

\* the two output writers, each on the same context and working directory
ApplyWriteHsa ==
  /\ Called("write_hsa")
  /\ LET disk == GoodName :> BodyLines(arg.body)
     IN res' = [hsa |-> write_hsa(Profile(arg), disk),
                tempdrop |-> write_hsa_class(Profile(arg), disk)]
  /\ applied' = TRUE
  /\ UNCHANGED rest

NextUnit ==
  \/ ApplyInterpsonde
  \/ ApplySfcpres
  \/ ApplyInterp
  \/ ApplyNormalize
  \/ ApplyUpdateTime
  \/ ApplyChoparr
  \/ ApplyLayerMean
  \/ ApplyObslocation
  \/ ApplyFrmtsonde
  \/ ApplyDropCalls
  \/ ApplyAdvect
  \/ ApplyRead
  \/ ApplyGetConfig
  \/ ApplyFallrate
  \/ ApplyDrift
  \/ ApplyWriteHsa

SpecUnit == InitUnit /\ [][NextUnit]_vars

\* a level of the working level set
Retained(level) ==
  /\ ~IsNaN(level.pres)
  /\ level.pres < 1070
  /\ level.flag \in {"manl", "sigl", "MANL", "SIGL"}

\* C11: after interpsonde the interp arrays hold exactly the levels whose
\* flag, lower-cased, is manl or sigl and whose pressure is below 1070, in
\* their order in the profile: the pressures and flags are theirs, and so is
\* every value of another variable that is not missing.
C11_WorkingLevelSet ==
  (Returned("interpsonde") /\ res.ok) =>
    LET kept == SelectSeq(arg, Retained)
        it == res.val.interp
    IN /\ it.pres = FieldOf(kept, "pres")
       /\ [i \in DOMAIN it.flag |-> LowerFlag(it.flag[i])]
            = [i \in DOMAIN kept |-> LowerFlag(kept[i].flag)]
       /\ \A key \in {"hgt", "rh", "temp", "uwnd", "vwnd"} :
             /\ Len(it[key]) = Len(kept)
             /\ \A i \in DOMAIN kept : ~IsNaN(kept[i][key]) => it[key][i] = kept[i][key]

C11_LevelsDropped ==
  /\ Returned("interpsonde") /\ res.ok
  /\ Len(arg) = 3 /\ Len(res.val.interp.pres) = 2
  /\ arg[2].pres = psfc_flag

\* the surface pressure the levels of a profile define: the height of the
\* first level at 1070, or else the largest pressure that is not missing
IsSurfacePressure(levels, psfc) ==
  LET at == {i \in DOMAIN levels : levels[i].pres = 1070}
      known == {i \in DOMAIN levels : ~IsNaN(levels[i].pres)}
  IN IF at # {}
       THEN \E i \in at : (\A j \in at : i <= j) /\ psfc = levels[i].hgt
       ELSE known # {} =>
              \E i \in known : psfc = levels[i].pres /\ \A j \in known : levels[j].pres <= psfc

\* C12: psfc is the hgt of the first of all decoded levels whose pressure is
\* 1070, and without such a level the largest non-missing pressure of all
\* decoded levels; interpsonde stores that value.
C12_SurfacePressure ==
  /\ Returned("sfcpres") => IsSurfacePressure(arg, res)
  /\ (Returned("interpsonde") /\ res.ok) => IsSurfacePressure(arg, res.val.interp.psfc)

C12_FirstSentinel ==
  /\ Returned("sfcpres") /\ Len(arg) = 3
  /\ arg[2].pres = 1070 /\ arg[3].pres = 1070 /\ arg[2].hgt # arg[3].hgt
  /\ res = arg[2].hgt

\* the positions of a variable that hold a value
Present(v) == {i \in DOMAIN v : v[i] # NaN}

\* C13: the interpolator returns an input without NaN unchanged, keeps the
\* value of every valid position, and applied to its own output (with the
\* same pressures) changes nothing.
C13_InterpKeepsValid ==
  Returned("interp") =>
    /\ DOMAIN res = DOMAIN arg.varin
    /\ Present(arg.varin) = DOMAIN arg.varin => res = arg.varin
    /\ \A i \in Present(arg.varin) : res[i] = arg.varin[i]
    /\ interp(res, arg.zarr) = res

C13_Filled ==
  /\ Returned("interp") /\ Len(res) = 3
  /\ arg.varin[2] = NaN /\ res[2] # NaN
  /\ res[1] = arg.varin[1] /\ res[3] = arg.varin[3]

\* C14: with no or one valid sample the interpolator returns an array of the
\* same length with the same values, every NaN still in place.
C14_TooFewSamples ==
  (Returned("interp") /\ Cardinality(Present(arg.varin)) <= 1) =>
    /\ Len(res) = Len(arg.varin)
    /\ \A i \in DOMAIN res : res[i] = arg.varin[i]

C14_OneSample ==
  /\ Returned("interp") /\ Len(res) = 3
  /\ Cardinality(Present(arg.varin)) = 1
  /\ res[1] = NaN /\ res[3] = NaN

\* the value at pressure v of the straight line through samples a and b
Line(varin, zarr, a, b, v) ==
  varin[a] + (((varin[b] - varin[a]) * (v - zarr[a])) \div (zarr[b] - zarr[a]))

\* samples a and b are neighbours in pressure, a below b
Neighbours(varin, zarr, a, b) ==
  /\ zarr[a] < zarr[b]
  /\ \A k \in Present(varin) : ~(zarr[a] < zarr[k] /\ zarr[k] < zarr[b])

\* y is the value at pressure v of the piecewise-linear interpolant through
\* the valid samples: on the segment that brackets v, or on the first or
\* the last segment when v lies outside the valid pressures
OnInterpolant(varin, zarr, v, y) ==
  LET S == Present(varin)
      xs == {zarr[k] : k \in S}
  IN \E a, b \in S :
       /\ Neighbours(varin, zarr, a, b)
       /\ IF v < SetMin(xs) THEN zarr[a] = SetMin(xs)
          ELSE IF v > SetMax(xs) THEN zarr[b] = SetMax(xs)
          ELSE zarr[a] <= v /\ v <= zarr[b]
       /\ y = Line(varin, zarr, a, b, v)

\* C15: with at least two valid samples every NaN position of the output
\* holds the value of the piecewise-linear interpolant at its pressure
\* (interpolated inside the valid range, extrapolated outside), and the
\* output contains no NaN.
C15_InterpFillsAll ==
  (Returned("interp") /\ Cardinality(Present(arg.varin)) >= 2) =>
    /\ \A i \in DOMAIN arg.varin \ Present(arg.varin) :
         OnInterpolant(arg.varin, arg.zarr, arg.zarr[i], res[i])
    /\ Present(res) = DOMAIN res

\* the sequence xs spans exactly the interval between a and b
Spans(xs, a, b) ==
  /\ SetMin(Range(xs)) = SetMin({a, b})
  /\ SetMax(Range(xs)) = SetMax({a, b})

Distinct(xs) == \E i, j \in DOMAIN xs : xs[i] # xs[j]

\* C16: after normalization the smallest and the largest corrected latitude
\* are min and max of the release and splash latitudes, and likewise for the
\* longitudes, for every trajectory whose span on that axis is not zero.
C16_NormalizedBounds ==
  Returned("normalize") =>
    /\ Distinct(arg.xlat) =>
         /\ Has(res.val.interp, "lat")
         /\ Spans(res.val.interp.lat, RelPoint[1], arg.spg[1])
    /\ (Distinct(arg.xlat) /\ Distinct(arg.xlon)) =>
         /\ res.ok
         /\ Spans(res.val.interp.lon, RelPoint[2], arg.spg[2])

C16_Stretched ==
  /\ Returned("normalize") /\ res.ok
  /\ arg.xlat = <<1000, 1010, 990>> /\ arg.spg = <<1400, 2600>>
  /\ res.val.interp.lat = <<1200, 1400, 1000>>

\* C17: when all integrated latitudes are the same, or all longitudes,
\* normalization raises a computation error and no stored interp.lat or
\* interp.lon value is NaN or infinite.
C17_DegenerateSpan ==
  (Returned("normalize") /\ (~Distinct(arg.xlat) \/ ~Distinct(arg.xlon))) =>
    /\ ~res.ok
    /\ res.err = "ZeroDivisionError"
    /\ \A k \in {"lat", "lon"} \cap DOMAIN res.val.interp :
         \A i \in DOMAIN res.val.interp[k] :
           ~IsNaN(res.val.interp[k][i]) /\ ~IsInf(res.val.interp[k][i])

C17_ConstantLongitude ==
  /\ Returned("normalize") /\ ~res.ok
  /\ Distinct(arg.xlat) /\ ~Distinct(arg.xlon) /\ Len(arg.xlon) = 3
  /\ Has(res.val.interp, "lat") /\ ~Has(res.val.interp, "lon")

\* the levels whose velocity proxy sqrt(u*u + v*v) is zero
Calm(wind) == {k \in DOMAIN wind : Speed(wind[k][1], wind[k][2]) = 0}

\* C18: when the velocity proxy at the earlier level of a pair is zero the
\* time reconstruction raises a computation error, and no offset it stores
\* is infinite or NaN.
C18_ZeroVelocityRaises ==
  (Returned("update_time") /\ Calm(arg.wind) # {}) =>
    /\ ~res.ok
    /\ Has(res.val.interp, "offset_seconds") =>
         \A k \in DOMAIN res.val.interp.offset_seconds :
           ~IsNaN(res.val.interp.offset_seconds[k]) /\ ~IsInf(res.val.interp.offset_seconds[k])

\* C19: choparr of an array of N >= 1 elements has N-1 elements, the first
\* N-1 of the input in reverse order; choparr of that result has the
\* second to the last-but-one element of the input in their original order.
C19_ChopReverses ==
  (Returned("choparr") /\ Len(arg) >= 1) =>
    LET N == Len(arg)
    IN /\ Len(res) = N - 1
       /\ \A j \in 1..(N - 1) : res[j] = arg[N - j]
       /\ choparr(res) = [j \in 1..(IF N >= 2 THEN N - 2 ELSE 0) |-> arg[j + 1]]

C19_FourElements ==
  /\ Returned("choparr")
  /\ arg = <<2, 4, 8, 2>>
  /\ res = <<8, 4, 2>>
  /\ choparr(res) = <<4, 8>>

\* C20: layer_mean of an array of N elements has N elements; entry i (0-based
\* i-1) is the mean of elements i and i+1 for every i below N, and the last
\* entry is never assigned: it is what the allocation held.
C20_LayerMeanShape ==
  Returned("layer_mean") =>
    LET N == Len(arg.v)
    IN /\ Len(res) = N
       /\ \A i \in 1..(N - 1) : 2 * res[i] = arg.v[i] + arg.v[i + 1]
       /\ N >= 1 => res[N] = arg.junk

C20_JunkLast ==
  /\ Returned("layer_mean")
  /\ arg.v = <<2, 4, 8>> /\ arg.junk = 77
  /\ res = <<3, 6, 77>>

\* the letters of a location string
LettersOf(a) == Range(a.l1) \cup Range(a.l2)

\* C21: obslocation of a string with two digit groups separated by letters
\* returns the first group over 100 as latitude, negated exactly when the
\* string holds an S of either case, and the second group over 100 as
\* longitude, negated exactly when it holds an E of either case.
C21_ObsLocation ==
  Returned("obslocation") =>
    /\ res.ok
    /\ res.val[1] = (IF LettersOf(arg) \cap {"S", "s"} # {} THEN -arg.g1.val ELSE arg.g1.val)
    /\ res.val[2] = (IF LettersOf(arg) \cap {"E", "e"} # {} THEN -arg.g2.val ELSE arg.g2.val)

C21_SouthWest ==
  /\ Returned("obslocation")
  /\ Locstr(arg) = <<"1", "0", "S", "1", "4", "5", "W">>
  /\ res.val = <<-10, 145>>

\* a token as frmtsonde stores it, a number or text
Stored(value) == IF ToString(value) = "-99" THEN NaN ELSE value

\* the record of a line: the tokens in the order pressure, temperature,
\* humidity, height, the two wind components and the level flag
RecordOf(cols) ==
  [pres |-> Stored(cols[1]), temp |-> Stored(cols[2]), rh |-> Stored(cols[3]),
   hgt |-> Stored(cols[4]), uwnd |-> Stored(cols[5]), vwnd |-> Stored(cols[6]),
   flag |-> Stored(cols[7])]

\* C22: frmtsonde produces one record per decoded line, in line order; the
\* schema fields are taken positionally from the line's tokens, a field equal
\* to the missing-data sentinel becomes NaN and every other field keeps its
\* value.
C22_FormattedRecords ==
  (Returned("frmtsonde") /\ \A i \in DOMAIN arg : Len(arg[i].cols) >= 7) =>
    /\ res.ok
    /\ DOMAIN res.val.frmtsonde = DOMAIN arg
    /\ \A i \in DOMAIN arg : res.val.frmtsonde[i] = RecordOf(arg[i].cols)

C22_SentinelReplaced ==
  /\ Returned("frmtsonde") /\ res.ok /\ Len(arg) = 3
  /\ arg[1].cols[4] = -99 /\ res.val.frmtsonde[1].hgt = NaN
  /\ arg[2].cols[1] = 400 /\ res.val.frmtsonde[2].pres = 400
  /\ res.val.frmtsonde[2].flag = NaN
  /\ Len(arg[3].cols) = 8

HoldsXX(msgline) == msgline.xx

\* C23: decode calls the external decoder once for every pair of a message
\* line that contains "xx" in either case and a decode flag (there is one
\* flag), in message-line order, and never for a line without "xx".
C23_DecoderCalls ==
  Returned("decode") => res = FieldOf(SelectSeq(arg, HoldsXX), "line")

C23_MixedMessage ==
  /\ Returned("decode") /\ Len(arg) = 3 /\ Len(res) = 2
  /\ ~arg[2].xx
  /\ arg[3].line[1] = <<"x", "x", "a", "a">> /\ res[2] = arg[3].line

\* C24: the advection engine leaves locate, dist and heading as they were,
\* and invoked again on the same context it gives the same interp.lat and
\* interp.lon (and the same outcome).
C24_AdvectRepeatable ==
  Returned("advect") =>
    /\ res.first.val.locate = Steered(arg).locate
    /\ res.first.val.interp.dist = arg.dist
    /\ res.first.val.interp.heading = arg.heading
    /\ res.second = res.first

C24_TwiceIntegrated ==
  /\ Returned("advect") /\ res.first.ok /\ res.second.ok
  /\ Len(arg.dist) = 3
  /\ Len(res.second.val.interp.lat) = 4
  /\ Distinct(res.second.val.interp.lon)

\* C25: ATCF.read with a path of None raises ATCFReadError without calling
\* read_tcvfile; with a path it calls read_tcvfile once, with that path, and
\* returns its result unchanged: the mock's object when read_tcvfile is
\* patched, else what read_tcvfile makes of the file at the path.
C25_ReadContract ==
  Returned("read") =>
    IF arg.atcf_filepath = "None"
      THEN ~res.ok /\ res.err = "ATCFReadError" /\ res.called = <<>>
      ELSE /\ res.called = <<arg.atcf_filepath>>
           /\ IF arg.patched THEN res.ok /\ res.val = mock_tcvobj
              ELSE /\ res.ok = (arg.disk = blankfiles /\ arg.atcf_filepath \in DOMAIN blankfiles)
                   /\ res.ok => res.val = Namespace
                   /\ ~res.ok =>
                        res.err = IF arg.atcf_filepath \in DOMAIN arg.disk
                                    THEN "ATCFError" ELSE "FileNotFoundError"

\* C26: get_config raises ObservationError when OBS_ROOT is not set, and
\* whenever OBS_ROOT is set it returns the configuration namespace of the
\* observation type, whether or not OBS_CONFIG_YAML is set.
C26_GetConfig ==
  Returned("get_config") =>
    IF arg.environ.OBS_ROOT = "None"
      THEN ~res.ok /\ res.err = "ObservationError"
      ELSE res.ok /\ res.val = config_yaml[arg.obs_type]

\* the sequence ys keeps the order of xs and lies between a and b
Monotone(xs, ys, a, b) ==
  /\ DOMAIN ys = DOMAIN xs
  /\ \A i, j \in DOMAIN xs : xs[i] <= xs[j] => ys[i] <= ys[j]
  /\ \A i \in DOMAIN ys : SetMin({a, b}) <= ys[i] /\ ys[i] <= SetMax({a, b})

\* C27: normalization preserves order on each axis (xlat[i] <= xlat[j]
\* implies lat[i] <= lat[j], likewise for longitude) and every normalized
\* coordinate lies in the closed interval between the rel and spg values of
\* its axis.
C27_OrderPreserved ==
  Returned("normalize") =>
    /\ Has(res.val.interp, "lat") =>
         Monotone(arg.xlat, res.val.interp.lat, RelPoint[1], arg.spg[1])
    /\ Has(res.val.interp, "lon") =>
         Monotone(arg.xlon, res.val.interp.lon, RelPoint[2], arg.spg[2])
    /\ (Distinct(arg.xlat) /\ Distinct(arg.xlon)) =>
         Has(res.val.interp, "lat") /\ Has(res.val.interp, "lon")

C27_ThreeDistinct ==
  /\ Returned("normalize") /\ res.ok
  /\ arg.xlon = <<2000, 1980, 2020>> /\ arg.spg = <<600, 1400>>
  /\ res.val.interp.lon = <<1700, 1400, 2000>>

\* C28: interpsonde succeeds for any number k >= 0 of levels passing the
\* working-level-set filter, with interp arrays of length k; in particular
\* with exactly one level or none retained.
C28_AnyLevelCount ==
  Returned("interpsonde") =>
    /\ res.ok
    /\ \A v \in {"pres", "hgt", "rh", "temp", "uwnd", "vwnd"} :
         Len(res.val.interp[v]) = Len(SelectSeq(arg, Retained))

\* the layers with the first layer mean replaced by v
FirstLayer(seq, v) == [k \in DOMAIN seq |-> IF k = 1 THEN v ELSE seq[k]]

\* C29: for L layers fallrate returns L + 1 entries; entries 1..L-1 are the
\* fall-rate function of (avgp[idx], avgt[idx], psfc), entries 0 and L stay
\* zero and the interpolation onto the level grid leaves them zero; the
\* first layer mean of avgp and avgt is never used.
C29_FallRateShape ==
  Returned("fallrate") =>
    LET L == Len(arg.avgp)
    IN /\ Len(res.rate) = L + 1
       /\ res.rate[1] = 0 /\ res.rate[L + 1] = 0
       /\ \A idx \in 1..(L - 1) :
            res.rate[idx + 1] = gsndfall2(arg.avgp[idx + 1], arg.avgt[idx + 1], arg.psfc)
       /\ Len(res.onto) = L + 1
       /\ res.onto[1] = 0 /\ res.onto[L + 1] = 0
       /\ \A p \in {600, 800, NaN}, t \in {-10, 20} :
            fallrate(FirstLayer(arg.avgp, p), FirstLayer(arg.avgt, t), arg.psfc) = res.rate

C29_ThreeLayers ==
  /\ Returned("fallrate")
  /\ arg.avgp = <<600, NaN, 800>> /\ arg.pres = <<900, 800, 700, 600>>
  /\ res.rate = <<0, NaN, 1, 0>>
  /\ res.onto[2] # NaN /\ res.onto[3] = 1

\* the seconds elapsed up to level index k (0-based): offset_seconds[0..k]
Elapsed(offs, k) == PrefixSum(offs, k + 1)

\* C30: after update_time offset_seconds[0] is zero and the date and time
\* at level index k are the cycle advanced by the sum of offset_seconds[0..k];
\* so index 0 carries the cycle time and the times do not decrease with k.
C30_TimesAdvance ==
  (Returned("update_time") /\ res.ok) =>
    LET it == res.val.interp
        di == res.val.dateinfo
    IN /\ it.offset_seconds[1] = 0
       /\ \A k \in DOMAIN it.hhmm :
            /\ k \in DOMAIN it.offset_seconds
            /\ Finite(Elapsed(it.offset_seconds, k - 1)) =>
                 /\ it.hhmm[k] = FmtTime(di, Elapsed(it.offset_seconds, k - 1))
                 /\ it.yymmdd[k] = FmtDate(di, Elapsed(it.offset_seconds, k - 1))
       /\ it.hhmm[1] = FmtTime(di, 0)
       /\ \A j, k \in DOMAIN it.hhmm :
            (j <= k /\ it.yymmdd[j] = it.yymmdd[k]) => it.hhmm[j] <= it.hhmm[k]

\* C3: once an output writer has run, on a sounding that went through drift
\* correction or on one that did not, the one file it has created is the
\* message path with "hsa" appended, holding one line per retained level in
\* level order.
C3_OneLinePerLevel ==
  Returned("write_hsa") =>
    LET out == hsa_outfile(GoodName)
        pres == res.hsa.val.interp.pres
    IN /\ DOMAIN res.hsa.files = {GoodName, out}
       /\ DOMAIN res.tempdrop.files = {GoodName, out}
       /\ Len(res.hsa.files[out]) = Len(pres)
       /\ \A idx \in DOMAIN res.hsa.files[out] : res.hsa.files[out][idx][6] = pres[idx]

C3_WriterReached ==
  /\ Returned("write_hsa") /\ arg.drifted /\ res.hsa.ok
  /\ Len(res.hsa.files[hsa_outfile(GoodName)]) = 3

\* C7: when rel or spg is absent from locate the Drift stage raises an error
\* instead of returning: drift correction is not skipped, and interp.lat and
\* interp.lon are not set.
C7_DriftRequiresFix ==
  (Returned("drift") /\ (arg.rel = "none" \/ arg.spg = "none")) =>
    /\ ~res.ok
    /\ res.err \in {"AttributeError", "ValueError"}
    /\ ~Has(res.val.interp, "lat") /\ ~Has(res.val.interp, "lon")

C7_SplashAbsent ==
  /\ Returned("drift") /\ arg.by = "locations"
  /\ Has(res.val.locate, "rel") /\ ~Has(res.val.locate, "spg")
  /\ ~res.ok /\ res.err = "AttributeError"
  /\ Len(res.val.interp.pres) = 3

\* C9: after the Drift stage every per-level array of interp has the length
\* of interp.pres.
C9_SameLength ==
  (Returned("drift") /\ res.ok) =>
    \A key \in DOMAIN res.val.interp \ {"psfc"} :
       Len(res.val.interp[key]) = Len(res.val.interp.pres)

\* the mean of two levels at the resolution of the model
MeanOf(a, b) == (a + b) \div 2

LayerSource == [avgp |-> "pres", avgt |-> "temp", avgu |-> "uwnd", avgv |-> "vwnd"]

\* C10: after the layer and fall-rate computation every layer array has one
\* entry fewer than interp.pres, and every entry is the mean of one pair of
\* adjacent levels of its variable.
C10_LayerMeans ==
  Returned("drift") =>
    \A key \in DOMAIN LayerSource :
       LET v == res.val.interp[LayerSource[key]]
           a == res.val.layer[key]
       IN /\ Len(a) = Len(res.val.interp.pres) - 1
          /\ \A j \in DOMAIN a : \E i \in 1..(Len(v) - 1) : a[j] = MeanOf(v[i], v[i + 1])

C10_ThreeLevels ==
  /\ Returned("drift") /\ Len(res.val.interp.pres) = 3
  /\ res.val.layer.avgp = <<800, 600>>

====
